---- MODULE Spec2Model ----
(***************************************************************************)
(* Model of the iterative-designer repository.                             *)
(*                                                                         *)
(*   SpecPool         the ExperiencePool (orchestrator/experience_pool.py) *)
(*                    driven by concurrent threads, every mutating         *)
(*                    operation split into the steps other threads can     *)
(*                    observe: lock acquire and read, open-for-write       *)
(*                    (truncation), dump and lock release.                 *)
(*   SpecPoolReaders  SpecPool and the pool's unlocked readers.            *)
(*   Spec             the first iteration of Orchestrator.run up to the    *)
(*                    return of its n_agents run_full_pipeline calls, over *)
(*                    one shared pool (agent/agent_pipeline.py,            *)
(*                    orchestrator/ochestrator.py).  A phase is one step;  *)
(*                    a pool call inside it is atomic (SpecPool is where   *)
(*                    the calls interleave).                               *)
(*   SpecIteration    Spec continued to the end of the iteration: the      *)
(*                    collection of the results, the synthesis, the apply  *)
(*                    step.                                                *)
(*   SpecOrch         the iterations of Orchestrator.run with the same     *)
(*                    steps; the content of the pool, which no step        *)
(*                    branches on, and the history of the phases are not   *)
(*                    tracked; the tree at repo_path and its snapshots     *)
(*                    are.                                                 *)
(*   SpecSynth        _synthesize_improvements on every list of results.   *)
(*   SpecAgent        BaseAgent.work() (agent/abstracted_agent.py), one    *)
(*                    pass of its loop a step, under every planner;        *)
(*                    SpecAgentFair adds that the loop goes on.            *)
(*                                                                         *)
(* Agent loops.  In the run, BaseAgent(...).work() is the environment: at  *)
(* each call site its outcome is any of the results the loop can return,   *)
(* or the TypeError of the construction.  In the source the construction   *)
(* in a pipeline, in the synthesis and in the apply step always raises     *)
(* (BaseAgent.__init__ has no working_dir parameter), so the behaviours of *)
(* the source are those in which the first call site raises; the other     *)
(* outcomes are kept so that what is shown of the later steps does not     *)
(* rest on that defect.  Of what the tools of a loop do to the file system *)
(* the run keeps one thing: whether they wrote in the tree at repo_path.   *)
(*                                                                         *)
(* Logs.  In Spec the log container is kept as logs_by_agent, its entries  *)
(* by agent_id in order: the order between the entries of different agents *)
(* is not kept.                                                            *)
(*                                                                         *)
(* Values.  Python None is NoneStr / NoneId / NoneVerdict according to the *)
(* type of the slot.  A hypothesis id "hyp_<YYYYmmddHHMMSS>_<agent_id>" is *)
(* the tuple <<"hyp", second, agent_id>>; an agent id "agent_<it>_<i>" is  *)
(* <<"agent", it, i>>.  The microsecond "timestamp" field of an entry is   *)
(* not kept; updated_at / completed_at hold the clock's second.            *)
(***************************************************************************)
EXTENDS Integers, Sequences, FiniteSets, TLC

\* ------------------------------------------------------------------ bounds
\* threads calling the pool in SpecPool
NThreads == 2
\* pool calls started in a SpecPool behaviour
MaxCalls == 3
\* last second the clock reaches
MaxClock == 1
\* n_agents: pipelines per iteration
NAgents == 2
\* iterations of Orchestrator.run explored (max_iterations is 100)
MaxIterations == 2
\* longest list of results handed to _synthesize_improvements in SpecSynth
MaxResults == 3
\* largest max_steps of a BaseAgent in SpecAgent (the default is 10)
MaxSteps == 3

\* ------------------------------------------------------------------ values
NoneStr == "<None>"
NoneId == <<>>
Absent == -1
NoneVerdict == [kind |-> "None", accepted |-> FALSE, confidence |-> 0]
Orchestrator == <<"orchestrator">>

AgentId_noIndex(it, i) == <<"agent", it, 0>>

\* f"agent_{self.iteration}_{i}"
AgentId(it, i) == <<"agent", it, i>>

\* ----------------------------------------------------------- pool contents
Containers == {"breakthroughs", "hypotheses", "pitfalls", "logs", "results"}

\* get_all_context reads the containers in the order of self.files
ContainerOrder == <<"breakthroughs", "hypotheses", "pitfalls", "logs", "results">>

\* what _initialize dumps into a new file, and what _read_file falls back to
DefaultData == [k \in {"entries"} |-> <<>>]

\* A container's file.  data is the content of the last completed dump;
\* writing is TRUE from open(filepath, 'w') (which truncates) until the dump is
\* complete: the bytes on disk are then empty or a strict prefix of a JSON
\* document, and data is not readable.
InitFile == [data |-> DefaultData, writing |-> FALSE]

\* json.load in _read_file without the except clause
ReadFile_noExcept(f) == IF f.writing THEN [k \in {"raised"} |-> <<>>] ELSE f.data

\* _read_file: the parsed document, or the default when open/json.load raises
ReadFile(f) == IF f.writing THEN DefaultData ELSE f.data

Raised(d) == "raised" \in DOMAIN d

Get(d, k) == IF k \in DOMAIN d THEN d[k] ELSE <<>>

Put(d, k, v) == [x \in DOMAIN d \cup {k} |-> IF x = k THEN v ELSE d[x]]

AppendEntry_overwrite(d, e) == Put(d, "entries", <<e>>)

\* data["entries"].append(entry)
AppendEntry(d, e) == Put(d, "entries", Append(d["entries"], e))

HypothesisId_noAgent(ts, agent_id) == <<"hyp", ts, <<>>>>

\* f"hyp_{datetime.now().strftime('%Y%m%d%H%M%S')}_{agent_id}"
HypothesisId(ts, agent_id) == <<"hyp", ts, agent_id>>

Breakthrough(agent_id, description, hypothesis_id) ==
    [agent_id |-> agent_id, hypothesis_id |-> hypothesis_id,
     description |-> description]

Pitfall(agent_id, description, hypothesis_id, error) ==
    [agent_id |-> agent_id, hypothesis_id |-> hypothesis_id,
     description |-> description, error |-> error]

Candidate(ts, agent_id, hypothesis_text, status) ==
    [id |-> HypothesisId(ts, agent_id), agent_id |-> agent_id,
     hypothesis |-> hypothesis_text, status |-> status, plan |-> NoneStr,
     evaluation |-> NoneVerdict, updated_at |-> Absent, completed_at |-> Absent]

ResultEntry(agent_id, hypothesis_id, result) ==
    [agent_id |-> agent_id, hypothesis_id |-> hypothesis_id, result |-> result]

LogEntry(agent_id, phase, message, level) ==
    [agent_id |-> agent_id, phase |-> phase, level |-> level, message |-> message]

\* add_hypothesis between the read and the write
AddHypothesisData(d, ts, agent_id, hypothesis_text, status) ==
    LET d1 == IF "candidates" \in DOMAIN d THEN d ELSE Put(d, "candidates", <<>>)
    IN  Put(d1, "candidates",
            Append(d1["candidates"], Candidate(ts, agent_id, hypothesis_text, status)))

\* entry.update(updates)
Merge(e, updates) ==
    [k \in DOMAIN e |-> IF k \in DOMAIN updates THEN updates[k] ELSE e[k]]

\* index of the first candidate whose id matches, 0 when none does
FirstMatch(cands, hypothesis_id) ==
    IF \E i \in 1..Len(cands) : cands[i].id = hypothesis_id
    THEN CHOOSE i \in 1..Len(cands) :
            /\ cands[i].id = hypothesis_id
            /\ \A j \in 1..(i - 1) : cands[j].id # hypothesis_id
    ELSE 0

UpdateHypothesisData_stampAll(d, hypothesis_id, updates, ts) ==
    IF "candidates" \notin DOMAIN d THEN d
    ELSE Put(d, "candidates",
             [i \in 1..Len(d["candidates"]) |->
                 IF d["candidates"][i].id = hypothesis_id
                 THEN [Merge(d["candidates"][i], updates) EXCEPT !.updated_at = ts]
                 ELSE [d["candidates"][i] EXCEPT !.updated_at = ts]])

\* update_hypothesis between the read and the write: the first match is merged
\* and stamped; data.get("candidates", []) adds no key on a miss
UpdateHypothesisData(d, hypothesis_id, updates, ts) ==
    LET cands == Get(d, "candidates")
        m == FirstMatch(cands, hypothesis_id)
    IN  IF m = 0 THEN d
        ELSE Put(d, "candidates",
                 [cands EXCEPT ![m] = [Merge(cands[m], updates) EXCEPT !.updated_at = ts]])

\* get_completed_hypotheses on the document read
CompletedOf(d) ==
    LET IsCompleted(h) == h.status = "completed"
    IN  SelectSeq(Get(d, "candidates"), IsCompleted)

\* get_successful_results on the document read
SuccessfulOf(d) ==
    LET IsAccepted(r) == r.result.accepted
    IN  SelectSeq(Get(d, "entries"), IsAccepted)

\* get_pitfalls_summary / get_breakthroughs_summary on the document read
EntriesOf(d) == Get(d, "entries")

\* ------------------------------------------------------------------- state
VARIABLES
    files,      \* container -> its file, shared by every user of the pool
    lock,       \* self.lock: the thread holding it, 0 when free
    clock,      \* datetime.now(), in seconds
    pc,         \* SpecPool: thread -> its position in the call it is making
    op,         \* SpecPool: thread -> the call it is making
    local,      \* SpecPool: thread -> the document (data / context) it holds
    ret,        \* SpecPool: thread -> the value its call is about to return
    returned,   \* SpecPool: the add_hypothesis calls that returned, in order
    added,      \* SpecPool: container -> the add_* calls on it that returned
    ncalls,     \* SpecPool: calls started
    iteration,  \* Orchestrator.iteration
    orch,       \* the position of Orchestrator.run
    pipeline,   \* slot i of the fan-out -> its AgentPipeline and position
    workspace,  \* workspace path -> who made the directory, Gone when absent
    logs_by_agent, \* Spec: slot -> the log entries of its agent, in order
    trace,      \* history: slot -> phases started, their returns, loop results
    created,    \* history: the agent ids of the pipelines created, in order
    results,    \* _run_parallel_agents: the results collected so far
    collected,  \* the slots whose future as_completed has yielded
    improvement, \* run: what _synthesize_improvements returned
    reports,    \* history: the iteration count of each report.md written
    repo,       \* the tree at repo_path: the agent whose tools last wrote in it
    checks,     \* history: what each _check_task_complete returned, in order
    snapshots,  \* second -> the snapshot directory named after it
    agent,      \* SpecAgent: the BaseAgent whose work() is followed
    call,       \* a call of one method or function, followed step by step
    disk        \* SpecCheckpoint: the directory at repo_path

poolVars == <<files, lock, clock>>
threadVars == <<pc, op, local, ret, returned, added, ncalls>>
runVars ==
    <<iteration, orch, pipeline, workspace, logs_by_agent, trace, created,
      results, collected, improvement, reports, repo, checks, snapshots, agent,
      call, disk>>
vars == <<poolVars, threadVars, runVars>>

\* ------------------------------------------------- the run: initial state
\* range(self.n_agents)
Pipes == 0..(NAgents - 1)

\* the slot under which logs_by_agent keeps the entries of "orchestrator"
OrchSlot == NAgents

\* os.path.join(workspace_dir, f"agent_{agent_id}")
WorkspacePath(agent_id) == <<"agent_workspaces", agent_id>>

AllPaths == {WorkspacePath(AgentId(it, i)) : it \in 1..MaxIterations, i \in Pipes}

\* no directory at a path / a directory an earlier process left behind
Gone == <<>>
Stale == <<"stale">>

\* what run_full_pipeline returns when it returns None
NullResult ==
    [null |-> TRUE, agent_id |-> NoneId, hypothesis_id |-> NoneId,
     hypothesis |-> NoneStr, plan |-> NoneStr, evaluation |-> NoneVerdict]

PhaseNames ==
    <<"setup", "hypothesis", "planning", "coding", "execution", "testing",
      "evaluation", "cleanup">>

\* AgentPipeline.__init__, and pc: where the pipeline's thread is
NewPipeline(at) ==
    [pc |-> at, hypothesis_id |-> NoneId, hypothesis_text |-> NoneStr,
     plan |-> NoneStr, evaluation_result |-> NoneVerdict, raised |-> NoneStr,
     result |-> NullResult]

NewTrace ==
    [started |-> <<>>,
     returns |-> [n \in 1..Len(PhaseNames) |-> NoneStr],
     loop |-> [n \in 1..Len(PhaseNames) |-> NoneStr]]

\* no improvement: _synthesize_improvements returned None, or was not called
NoImprovement ==
    [none |-> TRUE, source_agent |-> NoneId, hypothesis_id |-> NoneId,
     hypothesis |-> NoneStr, plan |-> NoneStr, confidence |-> 0]

\* no directory snapshot_<second> under repo_path/snapshots
NoSnapshot == [iteration |-> 0, tree |-> NoneId]

\* no BaseAgent is followed
NoReply == [raises |-> TRUE, after |-> <<>>, tool |-> NoneStr, input |-> NoneStr]

NoAgent ==
    [pc |-> "none", can_write |-> FALSE, can_execute_terminal |-> FALSE,
     max_steps |-> 0, tools |-> {}, step_count |-> 0, calls |-> 0,
     reply |-> NoReply, turns |-> <<>>, writes |-> 0, subprocesses |-> 0,
     printed |-> <<>>, answered |-> FALSE, result |-> NoneStr]

\* no call of a method is followed, and no directory
NoCall == [pc |-> "none"]
NoDisk == [pc |-> "none"]
NoCalls == call = NoCall /\ disk = NoDisk

\* Orchestrator.__init__
InitRun ==
    /\ iteration = 0
    /\ orch = "loop"
    /\ pipeline = [q \in Pipes |-> NewPipeline("idle")]
    /\ logs_by_agent = [q \in Pipes \cup {OrchSlot} |-> <<>>]
    /\ trace = [q \in Pipes |-> NewTrace]
    /\ created = <<>>
    /\ results = <<>>
    /\ collected = {}
    /\ improvement = NoImprovement
    /\ reports = <<>>
    /\ repo = NoneId
    /\ checks = <<>>
    /\ snapshots = [ts \in 0..MaxClock |-> NoSnapshot]

\* workspace_dir is empty when the run starts
NoLeftover == workspace = [p \in AllPaths |-> Gone]

\* or it holds the workspaces of a process that did not reach its cleanups
Leftover == workspace = [p \in AllPaths |-> Stale]

\* ----------------------------------------------------- SpecPool: the calls
Threads == 1..NThreads
NoThread == 0

\* the agent identifier a thread passes: pairwise distinct between threads
AgentOf(t) == AgentId(1, t - 1)

AcceptedVerdict == [kind |-> "parsed", accepted |-> TRUE, confidence |-> 9]
RejectedVerdict == [kind |-> "parsed", accepted |-> FALSE, confidence |-> 3]

\* an id no add_hypothesis call returns
MissingId == <<"hyp", 0, <<"nobody">>>>

Mutators ==
    {"add_breakthrough", "add_pitfall", "add_hypothesis", "update_hypothesis",
     "add_result", "add_log"}

Readers ==
    {"get_all_context", "get_completed_hypotheses", "get_successful_results",
     "get_pitfalls_summary", "get_breakthroughs_summary"}

\* the container an operation reads (and, for a mutator, writes)
KeyOf(name) ==
    CASE name \in {"add_breakthrough", "get_breakthroughs_summary"} -> "breakthroughs"
      [] name \in {"add_pitfall", "get_pitfalls_summary"} -> "pitfalls"
      [] name \in {"add_hypothesis", "update_hypothesis",
                   "get_completed_hypotheses"} -> "hypotheses"
      [] name \in {"add_result", "get_successful_results"} -> "results"
      [] name = "add_log" -> "logs"
      [] OTHER -> "breakthroughs"

NoOp == [name |-> "none", hid |-> NoneId, upd |-> "none", verdict |-> NoneVerdict]

StoredIds == {Get(files["hypotheses"].data, "candidates")[i].id :
                 i \in 1..Len(Get(files["hypotheses"].data, "candidates"))}

\* the mutating calls a thread may make, with the arguments it may pass
MutatorOps ==
    {[name |-> n, hid |-> NoneId, upd |-> "none", verdict |-> NoneVerdict] :
        n \in Mutators \ {"update_hypothesis", "add_result"}}
    \cup {[name |-> "add_result", hid |-> NoneId, upd |-> "none", verdict |-> v] :
            v \in {AcceptedVerdict, RejectedVerdict}}
    \cup {[name |-> "update_hypothesis", hid |-> h, upd |-> u, verdict |-> NoneVerdict] :
            h \in StoredIds \cup {MissingId}, u \in {"plan", "completed"}}

\* the reading calls a thread may make
ReaderOps ==
    {[name |-> n, hid |-> NoneId, upd |-> "none", verdict |-> NoneVerdict] :
        n \in Readers}

\* the updates the pipeline passes: {"plan": ...} and
\* {"status": "completed", "evaluation": ..., "completed_at": now}
UpdatesOf(kind, verdict, plan, ts) ==
    IF kind = "plan" THEN [k \in {"plan"} |-> plan]
    ELSE [status |-> "completed", evaluation |-> verdict, completed_at |-> ts]

\* the document a mutator writes back, from the document it read
Modified(t, o, d) ==
    CASE o.name = "add_breakthrough" ->
            AppendEntry(d, Breakthrough(AgentOf(t), "description", o.hid))
      [] o.name = "add_pitfall" ->
            AppendEntry(d, Pitfall(AgentOf(t), "description", o.hid, NoneStr))
      [] o.name = "add_hypothesis" ->
            AddHypothesisData(d, clock, AgentOf(t), "hypothesis", "proposed")
      [] o.name = "update_hypothesis" ->
            UpdateHypothesisData(d, o.hid,
                UpdatesOf(o.upd, AcceptedVerdict, "plan", clock), clock)
      [] o.name = "add_result" ->
            AppendEntry(d, ResultEntry(AgentOf(t), o.hid, o.verdict))
      [] o.name = "add_log" ->
            AppendEntry(d, LogEntry(AgentOf(t), "phase", "message", "info"))

\* what a single-container reader returns, from the document it read
View(name, d) ==
    CASE name = "get_completed_hypotheses" -> CompletedOf(d)
      [] name = "get_successful_results" -> SuccessfulOf(d)
      [] OTHER -> EntriesOf(d)

CanAcquire_noLock(t) == TRUE

\* threading.Lock: acquired only while free
CanAcquire(t) == lock = NoThread

Exit_onReturn(t, raised) == IF raised THEN t ELSE NoThread

\* with self.lock: the lock is released when the block is left, by its end
\* or by an exception
Exit(t, raised) == NoThread

InitPool ==
    /\ files = [c \in Containers |-> InitFile]
    /\ lock = NoThread
    /\ clock = 0

InitThreads ==
    /\ pc = [t \in Threads |-> "idle"]
    /\ op = [t \in Threads |-> NoOp]
    /\ local = [t \in Threads |-> DefaultData]
    /\ ret = [t \in Threads |-> <<>>]
    /\ returned = <<>>
    /\ added = [c \in Containers |-> 0]
    /\ ncalls = 0

\* a thread calls a mutating operation of the pool
Call(t) ==
    /\ pc[t] = "idle"
    /\ ncalls < MaxCalls
    /\ \E o \in MutatorOps : op' = [op EXCEPT ![t] = o]
    /\ pc' = [pc EXCEPT ![t] = "wait"]
    /\ local' = [local EXCEPT ![t] = <<>>]
    /\ ncalls' = ncalls + 1
    /\ UNCHANGED <<poolVars, ret, returned, added, runVars>>

\* a thread calls a reader of the pool
CallReader(t) ==
    /\ pc[t] = "idle"
    /\ ncalls < MaxCalls
    /\ \E o \in ReaderOps :
        /\ op' = [op EXCEPT ![t] = o]
        /\ pc' = [pc EXCEPT ![t] =
                    IF o.name = "get_all_context" THEN "context" ELSE "reading"]
    /\ local' = [local EXCEPT ![t] = <<>>]
    /\ ncalls' = ncalls + 1
    /\ UNCHANGED <<poolVars, ret, returned, added, runVars>>

\* with self.lock: entry, then data = self._read_file(key) and the change
\* made in memory
AcquireRead(t) ==
    /\ pc[t] = "wait"
    /\ CanAcquire(t)
    /\ lock' = t
    /\ LET d == Modified(t, op[t], ReadFile(files[KeyOf(op[t].name)]))
       IN  /\ local' = [local EXCEPT ![t] = d]
           /\ ret' = [ret EXCEPT ![t] =
                        IF op[t].name = "add_hypothesis"
                        THEN d["candidates"][Len(d["candidates"])].id ELSE NoneId]
    /\ pc' = [pc EXCEPT ![t] = "open"]
    /\ UNCHANGED <<files, clock, op, returned, added, ncalls, runVars>>

\* _write_file: open(filepath, 'w') truncates the file
WriteOpen(t) ==
    /\ pc[t] = "open"
    /\ files' = [files EXCEPT ![KeyOf(op[t].name)].writing = TRUE]
    /\ pc' = [pc EXCEPT ![t] = "dump"]
    /\ UNCHANGED <<lock, clock, op, local, ret, returned, added, ncalls, runVars>>

\* _write_file: json.dump completes and the file is closed; then
\* with self.lock: exit, and the return
DumpRelease(t) ==
    /\ pc[t] = "dump"
    /\ files' = [files EXCEPT ![KeyOf(op[t].name)] = [data |-> local[t], writing |-> FALSE]]
    /\ lock' = Exit(t, FALSE)
    /\ returned' = IF op[t].name = "add_hypothesis"
                   THEN Append(returned, [agent_id |-> AgentOf(t), id |-> ret[t]])
                   ELSE returned
    /\ added' = IF op[t].name # "update_hypothesis"
                THEN [added EXCEPT ![KeyOf(op[t].name)] = @ + 1] ELSE added
    /\ pc' = [pc EXCEPT ![t] = "idle"]
    /\ op' = [op EXCEPT ![t] = NoOp]
    /\ local' = [local EXCEPT ![t] = DefaultData]
    /\ ret' = [ret EXCEPT ![t] = <<>>]
    /\ UNCHANGED <<clock, ncalls, runVars>>

\* get_all_context: context[key] = self._read_file(key), for the next key
ReadContext(t) ==
    /\ pc[t] = "context"
    /\ LET k == ContainerOrder[Cardinality(DOMAIN local[t]) + 1]
           ctx == [x \in DOMAIN local[t] \cup {k} |->
                      IF x = k THEN ReadFile(files[k]) ELSE local[t][x]]
       IN  /\ local' = [local EXCEPT ![t] = ctx]
           /\ pc' = [pc EXCEPT ![t] =
                        IF DOMAIN ctx = Containers THEN "return" ELSE "context"]
           /\ ret' = [ret EXCEPT ![t] = IF DOMAIN ctx = Containers THEN ctx ELSE <<>>]
    /\ UNCHANGED <<poolVars, op, returned, added, ncalls, runVars>>

\* the summary readers: one unlocked _read_file, then the view of it
ReadOnce(t) ==
    /\ pc[t] = "reading"
    /\ ret' = [ret EXCEPT ![t] = View(op[t].name, ReadFile(files[KeyOf(op[t].name)]))]
    /\ pc' = [pc EXCEPT ![t] = "return"]
    /\ UNCHANGED <<poolVars, op, local, returned, added, ncalls, runVars>>

\* a reader returns
Return(t) ==
    /\ pc[t] = "return"
    /\ pc' = [pc EXCEPT ![t] = "idle"]
    /\ op' = [op EXCEPT ![t] = NoOp]
    /\ local' = [local EXCEPT ![t] = DefaultData]
    /\ ret' = [ret EXCEPT ![t] = <<>>]
    /\ UNCHANGED <<poolVars, returned, added, ncalls, runVars>>

\* the wall clock reaches the next second
Tick ==
    /\ clock < MaxClock
    /\ clock' = clock + 1
    /\ UNCHANGED <<files, lock, threadVars, runVars>>

InitSpecPool ==
    InitPool /\ InitThreads /\ InitRun /\ NoLeftover /\ agent = NoAgent /\ NoCalls

NextPool ==
    \/ \E t \in Threads : Call(t)
    \/ \E t \in Threads : AcquireRead(t)
    \/ \E t \in Threads : WriteOpen(t)
    \/ \E t \in Threads : DumpRelease(t)
    \/ Tick

\* the mutating calls alone: a reader changes nothing another call can see
SpecPool == InitSpecPool /\ [][NextPool]_vars

NextPoolReaders ==
    \/ NextPool
    \/ \E t \in Threads : CallReader(t)
    \/ \E t \in Threads : ReadContext(t)
    \/ \E t \in Threads : ReadOnce(t)
    \/ \E t \in Threads : Return(t)

\* the mutating calls and the readers
SpecPoolReaders == InitSpecPool /\ [][NextPoolReaders]_vars

\* _write_file: open(filepath, 'w') raises; the file is as it was, the
\* exception leaves the with block and the operation
WriteOpenRaises(t) ==
    /\ pc[t] = "open"
    /\ lock' = Exit(t, TRUE)
    /\ pc' = [pc EXCEPT ![t] = "raised"]
    /\ UNCHANGED <<files, clock, op, local, ret, returned, added, ncalls, runVars>>

\* _write_file: json.dump or the close of the file raises; the file stays
\* as far as it was written, and the exception leaves the with block and the
\* operation
DumpRaises(t) ==
    /\ pc[t] = "dump"
    /\ lock' = Exit(t, TRUE)
    /\ pc' = [pc EXCEPT ![t] = "raised"]
    /\ UNCHANGED <<files, clock, op, local, ret, returned, added, ncalls, runVars>>

\* the caller has the exception of the operation
Propagate(t) ==
    /\ pc[t] = "raised"
    /\ pc' = [pc EXCEPT ![t] = "idle"]
    /\ op' = [op EXCEPT ![t] = NoOp]
    /\ local' = [local EXCEPT ![t] = DefaultData]
    /\ ret' = [ret EXCEPT ![t] = <<>>]
    /\ UNCHANGED <<poolVars, returned, added, ncalls, runVars>>

NextPoolFaults ==
    \/ NextPool
    \/ \E t \in Threads : WriteOpenRaises(t)
    \/ \E t \in Threads : DumpRaises(t)
    \/ \E t \in Threads : Propagate(t)

\* the mutating calls, with a write that may fail
SpecPoolFaults == InitSpecPool /\ [][NextPoolFaults]_vars

\* a thread that can take the lock again and again takes it, and a thread
\* inside an operation goes on
SpecPoolFair ==
    /\ SpecPoolFaults
    /\ \A t \in Threads :
         /\ SF_vars(AcquireRead(t))
         /\ WF_vars(WriteOpen(t) \/ WriteOpenRaises(t))
         /\ WF_vars(DumpRelease(t) \/ DumpRaises(t))
         /\ WF_vars(Propagate(t))

\* ------------------------------------------------------- SpecPool: claims
IsPrefix(s, t) == Len(s) <= Len(t) /\ \A i \in 1..Len(s) : s[i] = t[i]

IdsOf(cands) == [i \in 1..Len(cands) |-> cands[i].id]

\* what is on record in a container: its entries, or its candidates
Stored(c, d) == IF c = "hypotheses" THEN Get(d, "candidates") ELSE Get(d, "entries")

Candidates == Get(ReadFile(files["hypotheses"]), "candidates")

Quiescent == \A t \in Threads : pc[t] = "idle"

InCriticalSection(t) == pc[t] \in {"open", "dump"}

DistinctAgents ==
    \A i, j \in 1..Len(returned) :
        i # j => returned[i].agent_id # returned[j].agent_id

\* C1: once every call has returned, if the add_hypothesis calls made were
\* made with pairwise distinct agent identifiers, the store holds one candidate
\* per call, the returned ids are pairwise distinct, and each returned id is
\* the id of exactly one stored candidate.
C1_ConcurrentAddHypothesis ==
    (Quiescent /\ DistinctAgents) =>
        /\ Len(Candidates) = Len(returned)
        /\ \A i, j \in 1..Len(returned) : i # j => returned[i].id # returned[j].id
        /\ \A i \in 1..Len(returned) :
              Cardinality({k \in 1..Len(Candidates) :
                              Candidates[k].id = returned[i].id}) = 1

\* two add_hypothesis calls of different threads have returned within one second
C1_Witness ==
    /\ Quiescent
    /\ Len(returned) = 2
    /\ returned[1].agent_id # returned[2].agent_id
    /\ returned[1].id[2] = returned[2].id[2]

\* C2: at most one thread is inside a mutating operation's critical section
\* (from the lock's acquisition, over the read and the write, to its release),
\* whichever containers the operations target.
C2_MutualExclusion ==
    Cardinality({t \in Threads : InCriticalSection(t)}) <= 1

\* one thread is in the middle of its write while another waits to mutate a
\* different container
C2_Witness ==
    \E t, u \in Threads :
        /\ pc[t] = "dump"
        /\ pc[u] = "wait"
        /\ KeyOf(op[t].name) # KeyOf(op[u].name)

\* lock free: every container holds one entry per add_* call that returned
NoLostUpdate ==
    lock = NoThread =>
        \A c \in Containers : Len(Stored(c, files[c].data)) = added[c]

\* C3: every step leaves each container's entries (for hypotheses: the ids of
\* its candidates) as they were or extends them by exactly one entry at the
\* end, changes at most one container, and no add is lost: with the lock free a
\* container holds exactly as many entries as add_* calls on it have returned.
C3_AppendOnly ==
    [][/\ \A c \in Containers :
            LET old == Stored(c, files[c].data)
                new == Stored(c, files'[c].data)
            IN  /\ Len(new) \in {Len(old), Len(old) + 1}
                /\ IF c = "hypotheses" THEN IsPrefix(IdsOf(old), IdsOf(new))
                   ELSE IsPrefix(old, new)
       /\ Cardinality({c \in Containers : files'[c].data # files[c].data}) <= 1
       /\ NoLostUpdate']_vars

\* both threads have appended to one container and both entries are there
C3_Witness ==
    /\ lock = NoThread
    /\ \E c \in Containers :
        /\ added[c] = 2
        /\ Len(Stored(c, files[c].data)) = 2
        /\ Stored(c, files[c].data)[1].agent_id # Stored(c, files[c].data)[2].agent_id

\* the call thread t is making is an update_hypothesis whose id is not stored
UpdateMisses(t) ==
    /\ op[t].name = "update_hypothesis"
    /\ op[t].hid \notin StoredIds

\* C4: no step of an update_hypothesis call whose id matches no candidate
\* changes the content of any container: the hypotheses document written back
\* is the one read (same candidates, no updated_at stamped), and the call
\* goes on to its return.
C4_UpdateMissIsNoOp ==
    [][\A t \in Threads :
          (UpdateMisses(t) /\ pc'[t] # pc[t]) =>
              /\ \A c \in Containers : files'[c].data = files[c].data
              /\ pc[t] = "wait" => local'[t] = files["hypotheses"].data
              /\ pc[t] = "dump" => ~files'["hypotheses"].writing /\ pc'[t] = "idle"]_vars

\* a missed update has written the store back while a candidate is stored
C4_Witness ==
    \E t \in Threads :
        /\ UpdateMisses(t)
        /\ pc[t] = "dump"
        /\ Len(Get(files["hypotheses"].data, "candidates")) >= 1

\* C5: a reader's step takes no lock and raises nothing; what it gets of a
\* container is the empty default when the container's file is being written
\* at that moment, and otherwise the content of the last completed write.
C5_ReadersTolerateWrites ==
    [][\A t \in Threads :
          /\ (pc[t] = "reading" /\ pc'[t] # pc[t]) =>
                LET f == files[KeyOf(op[t].name)]
                IN  /\ ret'[t] = View(op[t].name,
                                      IF f.writing THEN DefaultData ELSE f.data)
                    /\ lock' = lock
          /\ (pc[t] = "context" /\ local'[t] # local[t]) =>
                /\ \A k \in DOMAIN local'[t] \ DOMAIN local[t] :
                      /\ ~Raised(local'[t][k])
                      /\ local'[t][k] =
                            IF files[k].writing THEN DefaultData ELSE files[k].data
                /\ lock' = lock]_vars

\* a reader is returning the empty default of a container that holds an
\* entry, having read it in the middle of a write
C5_Witness ==
    \E t \in Threads :
        /\ pc[t] = "return"
        /\ op[t].name = "get_pitfalls_summary"
        /\ ret[t] = <<>>
        /\ files["pitfalls"].writing
        /\ Len(files["pitfalls"].data["entries"]) >= 1

\* --------------------------------------------------- the run: pool calls
\* a whole add_breakthrough / add_pitfall / add_result call: under the lock,
\* the read, the append and the write
add_entry(fs, key, entry) ==
    [fs EXCEPT ![key] = [data |-> AppendEntry(ReadFile(@), entry), writing |-> FALSE]]

\* a whole add_hypothesis call
add_hypothesis(fs, ts, agent_id, hypothesis_text, status) ==
    [fs EXCEPT !["hypotheses"] =
        [data |-> AddHypothesisData(ReadFile(@), ts, agent_id, hypothesis_text, status),
         writing |-> FALSE]]

\* a whole update_hypothesis call
update_hypothesis(fs, hypothesis_id, updates, ts) ==
    [fs EXCEPT !["hypotheses"] =
        [data |-> UpdateHypothesisData(ReadFile(@), hypothesis_id, updates, ts),
         writing |-> FALSE]]

\* ------------------------------------------------- the run: the agent loop
\* what construction raises: __init__() got an unexpected keyword argument
TypeError == "TypeError"

\* what shutil.copytree raises
OSError == "OSError"

\* what work() returns when its loop fails
Sentinel == "False"

\* a final answer with the word False in it
FalseInside == "x = False helps"

\* the results an agent loop may return at the call site of a phase
LoopResults(phase) ==
    CASE phase = "hypothesis" -> {"", Sentinel, FalseInside, "hypothesis"}
      [] phase = "planning" -> {"", Sentinel, "plan"}
      [] phase = "coding" -> {"", Sentinel, FalseInside, "done"}
      [] phase = "evaluation" ->
            {Sentinel, "{accepted}", "{rejected}", "{not json}",
             "{accepted, confidence: high}"}
      [] OTHER -> {Sentinel, "output"}

\* BaseAgent(..., working_dir=...).work() at the call site of a phase
AgentOutcomes(phase) == {TypeError} \cup LoopResults(phase)

\* bool(text)
Truthy(text) == text \notin {"", NoneStr}

\* "False" in text
ContainsFalse(text) == text \in {Sentinel, FalseInside}

\* "{" in result and "}" in result
HasBraces(text) ==
    text \in {"{accepted}", "{rejected}", "{not json}", "{accepted, confidence: high}"}

\* a confidence that is no number (a string, a list, null)
TextConfidence == -2
TextVerdict == [kind |-> "parsed", accepted |-> TRUE, confidence |-> TextConfidence]

\* the except clause of the parse, and its else branch
DefaultVerdict(findings) == [kind |-> findings, accepted |-> FALSE, confidence |-> 0]

\* run_evaluation_phase: evaluation_result from the loop's result
ParseVerdict(text) ==
    CASE text = "{accepted}" -> AcceptedVerdict
      [] text = "{rejected}" -> RejectedVerdict
      [] text = "{accepted, confidence: high}" -> TextVerdict
      [] text = "{not json}" ->
            DefaultVerdict("Evaluation parsing failed")
      [] OTHER -> DefaultVerdict("Could not parse evaluation")

\* ------------------------------------------------------ the run: pipelines
\* f"agent_{self.iteration}_{i}"
Agent(q) == AgentId(iteration, q)

\* self.agent_workspace
Path(q) == WorkspacePath(Agent(q))

Idx(phase) == CHOOSE n \in 1..Len(PhaseNames) : PhaseNames[n] = phase

RemoveTree_keep(ws, path) == ws

\* if os.path.exists(path): shutil.rmtree(path)
RemoveTree(ws, path) == [ws EXCEPT ![path] = Gone]

Continue_ignoreFailure(phase, ok) ==
    IF phase = "evaluation" THEN "cleanup" ELSE PhaseNames[Idx(phase) + 1]

\* run_full_pipeline: where the thread goes when a phase has returned;
\* "cleanup_failed" is the cleanup_workspace() before a return None
Continue(phase, ok) ==
    IF ~ok THEN "cleanup_failed"
    ELSE IF phase = "evaluation" THEN "cleanup"
    ELSE PhaseNames[Idx(phase) + 1]

Unchecked_gated(result) == Truthy(result) /\ ~ContainsFalse(result)

\* self.run_execution_phase(); self.run_testing_phase(): what the phase
\* returns, and what its agent loop returned, is not looked at
Unchecked(result) == TRUE

\* an exception leaves the phase for run_full_pipeline's except clause
Raise(p, error) == [p EXCEPT !.pc = "except", !.raised = error]

CodingPitfall_noId(agent_id, hypothesis_id, result) ==
    Pitfall(agent_id, "Coding phase failed", NoneId, result)

\* the pitfall run_coding_phase records for a failed implementation
CodingPitfall(agent_id, hypothesis_id, result) ==
    Pitfall(agent_id, "Coding phase failed", hypothesis_id, result)

\* the record run_full_pipeline returns after the evaluation
PipelineResult(agent_id, p) ==
    [null |-> FALSE, agent_id |-> agent_id, hypothesis_id |-> p.hypothesis_id,
     hypothesis |-> p.hypothesis_text, plan |-> p.plan,
     evaluation |-> p.evaluation_result]

AddSignal_both(fs, agent_id, hypothesis_id, verdict) ==
    add_entry(add_entry(fs, "breakthroughs",
                        Breakthrough(agent_id, "Hypothesis accepted", hypothesis_id)),
              "pitfalls", Pitfall(agent_id, "Hypothesis rejected", hypothesis_id, NoneStr))

\* run_evaluation_phase: if self.evaluation_result.get("accepted") a
\* breakthrough, else a pitfall
AddSignal(fs, agent_id, hypothesis_id, verdict) ==
    IF verdict.accepted
    THEN add_entry(fs, "breakthroughs",
                   Breakthrough(agent_id, "Hypothesis accepted", hypothesis_id))
    ELSE add_entry(fs, "pitfalls",
                   Pitfall(agent_id, "Hypothesis rejected", hypothesis_id, NoneStr))

\* One step of pipeline q: its object becomes p2, the pool's files fs, its
\* agent's log gains entries, and the history records that the phase was
\* started, what it returned and what its agent loop returned.  With pool
\* FALSE (SpecOrch) the pool's content and the history are left alone.
Step(q, pool, p2, fs, entries, phase, return, text) ==
    /\ pipeline' = [pipeline EXCEPT ![q] = p2]
    /\ files' = IF pool THEN fs ELSE files
    /\ logs_by_agent' =
          IF pool THEN [logs_by_agent EXCEPT ![q] = @ \o entries] ELSE logs_by_agent
    /\ trace' =
          IF pool
          THEN [trace EXCEPT ![q] =
                  [started |-> Append(@.started, phase),
                   returns |-> [@.returns EXCEPT ![Idx(phase)] = return],
                   loop |-> [@.loop EXCEPT ![Idx(phase)] = text]]]
          ELSE trace

runRest ==
    <<lock, clock, threadVars, iteration, orch, created, results, collected,
      improvement, reports, checks, snapshots, agent, call, disk>>

\* The tools of an agent loop that ran: write_file and run_terminal resolve
\* their paths against the process's working directory, under which repo_path
\* lies, so a loop holding either may write in the tree at repo_path.  The
\* tree is followed where the pool's content is not (pool FALSE).
ToolCalls(pool, agent_id, can_write, can_execute_terminal) ==
    repo' \in IF ~pool /\ (can_write \/ can_execute_terminal)
              THEN {repo, agent_id} ELSE {repo}

\* run_full_pipeline's first log, then setup_isolated_workspace: a directory
\* found at the path is removed, and the copy of the repository completes or
\* raises, leaving nothing or a partial tree
SetupWorkspace(q, pool) ==
    /\ pipeline[q].pc = "queued"
    /\ \E copy \in {"copied", "failed", "failed, partial"} :
        LET p == pipeline[q]
            a == Agent(q)
            logs == <<LogEntry(a, "pipeline", "Starting full pipeline", "info"),
                      LogEntry(a, "setup", "Creating isolated workspace", "info")>>
            removed == RemoveTree(workspace, Path(q))
        IN  IF copy = "copied"
            THEN /\ Step(q, pool, [p EXCEPT !.pc = "hypothesis"], files,
                         Append(logs, LogEntry(a, "setup", "Workspace created", "info")),
                         "setup", "True", NoneStr)
                 /\ workspace' = [removed EXCEPT ![Path(q)] = a]
            ELSE /\ Step(q, pool, Raise(p, OSError), files, logs,
                         "setup", "raised", NoneStr)
                 /\ workspace' = IF copy = "failed" THEN removed
                                 ELSE [removed EXCEPT ![Path(q)] = a]
    /\ UNCHANGED <<runRest, repo>>

\* run_hypothesis_phase
RunHypothesisPhase(q, pool) ==
    /\ pipeline[q].pc = "hypothesis"
    /\ \E o \in AgentOutcomes("hypothesis") :
        LET p == pipeline[q]
            a == Agent(q)
            first == LogEntry(a, "hypothesis", "Generating hypothesis", "info")
        IN  IF o = TypeError
            THEN (Step(q, pool, Raise(p, o), files, <<first>>,
                      "hypothesis", "raised", NoneStr) /\ repo' = repo)
            ELSE IF Truthy(o) /\ ~ContainsFalse(o)
            THEN (Step(q, pool,
                      [p EXCEPT !.hypothesis_text = o,
                                !.hypothesis_id = HypothesisId(clock, a),
                                !.pc = Continue("hypothesis", TRUE)],
                      add_hypothesis(files, clock, a, o, "in_progress"),
                      <<first, LogEntry(a, "hypothesis", "Generated", "info")>>,
                      "hypothesis", "True", o) /\ ToolCalls(pool, a, FALSE, FALSE))
            ELSE (Step(q, pool,
                      [p EXCEPT !.hypothesis_text = o,
                                !.pc = Continue("hypothesis", FALSE)],
                      files,
                      <<first, LogEntry(a, "hypothesis",
                                        "Failed to generate hypothesis", "error")>>,
                      "hypothesis", "False", o) /\ ToolCalls(pool, a, FALSE, FALSE))
    /\ UNCHANGED <<runRest, workspace>>

\* run_planning_phase
RunPlanningPhase(q, pool) ==
    /\ pipeline[q].pc = "planning"
    /\ LET p == pipeline[q]
           a == Agent(q)
           first == LogEntry(a, "planning", "Creating implementation plan", "info")
       IN  IF ~Truthy(p.hypothesis_text)
           THEN (Step(q, pool, [p EXCEPT !.pc = Continue("planning", FALSE)], files,
                     <<>>, "planning", "False", NoneStr) /\ repo' = repo)
           ELSE \E o \in AgentOutcomes("planning") :
               IF o = TypeError
               THEN (Step(q, pool, Raise(p, o), files, <<first>>,
                         "planning", "raised", NoneStr) /\ repo' = repo)
               ELSE IF Truthy(o)
               THEN (Step(q, pool,
                         [p EXCEPT !.plan = o, !.pc = Continue("planning", TRUE)],
                         update_hypothesis(files, p.hypothesis_id,
                                           UpdatesOf("plan", NoneVerdict, o, clock), clock),
                         <<first, LogEntry(a, "planning",
                                           "Plan created successfully", "info")>>,
                         "planning", "True", o) /\ ToolCalls(pool, a, FALSE, FALSE))
               ELSE (Step(q, pool,
                         [p EXCEPT !.plan = o, !.pc = Continue("planning", FALSE)],
                         files,
                         <<first, LogEntry(a, "planning",
                                           "Failed to create plan", "error")>>,
                         "planning", "False", o) /\ ToolCalls(pool, a, FALSE, FALSE))
    /\ UNCHANGED <<runRest, workspace>>

\* run_coding_phase
RunCodingPhase(q, pool) ==
    /\ pipeline[q].pc = "coding"
    /\ LET p == pipeline[q]
           a == Agent(q)
           first == LogEntry(a, "coding", "Implementing plan", "info")
       IN  IF ~Truthy(p.plan)
           THEN (Step(q, pool, [p EXCEPT !.pc = Continue("coding", FALSE)], files,
                     <<>>, "coding", "False", NoneStr) /\ repo' = repo)
           ELSE \E o \in AgentOutcomes("coding") :
               IF o = TypeError
               THEN (Step(q, pool, Raise(p, o), files, <<first>>,
                         "coding", "raised", NoneStr) /\ repo' = repo)
               ELSE IF Truthy(o) /\ ~ContainsFalse(o)
               THEN (Step(q, pool, [p EXCEPT !.pc = Continue("coding", TRUE)], files,
                         <<first, LogEntry(a, "coding",
                                           "Implementation complete", "info")>>,
                         "coding", "True", o) /\ ToolCalls(pool, a, TRUE, TRUE))
               ELSE (Step(q, pool, [p EXCEPT !.pc = Continue("coding", FALSE)],
                         add_entry(files, "pitfalls",
                                   CodingPitfall(a, p.hypothesis_id, o)),
                         <<first, LogEntry(a, "coding",
                                           "Implementation failed", "error")>>,
                         "coding", "False", o) /\ ToolCalls(pool, a, TRUE, TRUE))
    /\ UNCHANGED <<runRest, workspace>>

\* run_execution_phase: whatever the loop returns, the phase returns True
RunExecutionPhase(q, pool) ==
    /\ pipeline[q].pc = "execution"
    /\ \E o \in AgentOutcomes("execution") :
        LET p == pipeline[q]
            a == Agent(q)
            first == LogEntry(a, "execution", "Running training/execution", "info")
        IN  IF o = TypeError
            THEN (Step(q, pool, Raise(p, o), files, <<first>>,
                      "execution", "raised", NoneStr) /\ repo' = repo)
            ELSE (Step(q, pool,
                      [p EXCEPT !.pc = Continue("execution", Unchecked(o))], files,
                      <<first, LogEntry(a, "execution", "Execution result", "info")>>,
                      "execution", "True", o) /\ ToolCalls(pool, a, TRUE, TRUE))
    /\ UNCHANGED <<runRest, workspace>>

\* run_testing_phase: its return value is not looked at
RunTestingPhase(q, pool) ==
    /\ pipeline[q].pc = "testing"
    /\ \E o \in AgentOutcomes("testing") :
        LET p == pipeline[q]
            a == Agent(q)
            first == LogEntry(a, "testing", "Running tests", "info")
        IN  IF o = TypeError
            THEN (Step(q, pool, Raise(p, o), files, <<first>>,
                      "testing", "raised", NoneStr) /\ repo' = repo)
            ELSE (Step(q, pool,
                      [p EXCEPT !.pc = Continue("testing", Unchecked(o))], files,
                      <<first, LogEntry(a, "testing", "Test results", "info")>>,
                      "testing", "True", o) /\ ToolCalls(pool, a, FALSE, TRUE))
    /\ UNCHANGED <<runRest, workspace>>

\* run_evaluation_phase: the verdict is parsed, recorded as a result, attached
\* to the hypothesis, and signalled as a breakthrough or a pitfall
RunEvaluationPhase(q, pool) ==
    /\ pipeline[q].pc = "evaluation"
    /\ \E o \in AgentOutcomes("evaluation") :
        LET p == pipeline[q]
            a == Agent(q)
            first == LogEntry(a, "evaluation", "Evaluating hypothesis", "info")
            v == ParseVerdict(o)
            fs1 == add_entry(files, "results", ResultEntry(a, p.hypothesis_id, v))
            fs2 == update_hypothesis(fs1, p.hypothesis_id,
                                     UpdatesOf("completed", v, NoneStr, clock), clock)
            fs3 == AddSignal(fs2, a, p.hypothesis_id, v)
        IN  IF o = TypeError
            THEN (Step(q, pool, Raise(p, o), files, <<first>>,
                      "evaluation", "raised", NoneStr) /\ repo' = repo)
            ELSE (Step(q, pool,
                      [p EXCEPT !.evaluation_result = v,
                                !.pc = Continue("evaluation", TRUE)],
                      fs3,
                      <<first, LogEntry(a, "evaluation", "Evaluation complete", "info")>>,
                      "evaluation", "True", o) /\ ToolCalls(pool, a, FALSE, TRUE))
    /\ UNCHANGED <<runRest, workspace>>

\* after the evaluation: cleanup_workspace, the last log, the result returned
CleanupAndReturn(q, pool) ==
    /\ pipeline[q].pc = "cleanup"
    /\ LET p == pipeline[q]
           a == Agent(q)
       IN  Step(q, pool, [p EXCEPT !.pc = "done", !.result = PipelineResult(a, p)],
                files,
                <<LogEntry(a, "cleanup", "Removing isolated workspace", "info"),
                  LogEntry(a, "pipeline", "Pipeline completed", "info")>>,
                "cleanup", "True", NoneStr)
    /\ workspace' = RemoveTree(workspace, Path(q))
    /\ UNCHANGED <<runRest, repo>>

\* after a fatal phase returned False: cleanup_workspace, return None
CleanupAfterFailure(q, pool) ==
    /\ pipeline[q].pc = "cleanup_failed"
    /\ LET p == pipeline[q]
           a == Agent(q)
       IN  Step(q, pool, [p EXCEPT !.pc = "done", !.result = NullResult], files,
                <<LogEntry(a, "cleanup", "Removing isolated workspace", "info")>>,
                "cleanup", "True", NoneStr)
    /\ workspace' = RemoveTree(workspace, Path(q))
    /\ UNCHANGED <<runRest, repo>>

\* except Exception: the error log, the crash pitfall, cleanup_workspace,
\* return None
HandleException(q, pool) ==
    /\ pipeline[q].pc = "except"
    /\ LET p == pipeline[q]
           a == Agent(q)
       IN  Step(q, pool, [p EXCEPT !.pc = "done", !.result = NullResult],
                add_entry(files, "pitfalls",
                          Pitfall(a, "Pipeline crashed", p.hypothesis_id, p.raised)),
                <<LogEntry(a, "pipeline", "Pipeline failed", "error"),
                  LogEntry(a, "cleanup", "Removing isolated workspace", "info")>>,
                "cleanup", "True", NoneStr)
    /\ workspace' = RemoveTree(workspace, Path(q))
    /\ UNCHANGED <<runRest, repo>>

\* shutil.rmtree raises in a cleanup_workspace of the try block (after the
\* evaluation or after a failed fatal phase): the directory stays, and the
\* exception goes to the except clause
CleanupRaises(q, pool) ==
    /\ pipeline[q].pc \in {"cleanup", "cleanup_failed"}
    /\ workspace[Path(q)] # Gone
    /\ LET p == pipeline[q]
           a == Agent(q)
       IN  Step(q, pool, Raise(p, OSError), files,
                <<LogEntry(a, "cleanup", "Removing isolated workspace", "info")>>,
                "cleanup", "raised", NoneStr)
    /\ UNCHANGED <<runRest, repo, workspace>>

\* except Exception: the error log, the crash pitfall, and shutil.rmtree
\* raises in cleanup_workspace: the exception leaves run_full_pipeline and is
\* the future's
HandleExceptionRaises(q, pool) ==
    /\ pipeline[q].pc = "except"
    /\ workspace[Path(q)] # Gone
    /\ LET p == pipeline[q]
           a == Agent(q)
       IN  Step(q, pool, [p EXCEPT !.pc = "raised", !.raised = OSError],
                add_entry(files, "pitfalls",
                          Pitfall(a, "Pipeline crashed", p.hypothesis_id, p.raised)),
                <<LogEntry(a, "pipeline", "Pipeline failed", "error"),
                  LogEntry(a, "cleanup", "Removing isolated workspace", "info")>>,
                "cleanup", "raised", NoneStr)
    /\ UNCHANGED <<runRest, repo, workspace>>

\* --------------------------------------------------- the run: orchestrator
OrchLogs(pool, entries) ==
    logs_by_agent' =
        IF pool THEN [logs_by_agent EXCEPT ![OrchSlot] = @ \o entries]
        ELSE logs_by_agent

GenerateReport_early(pool, entries, count) ==
    /\ reports' = Append(reports, count - 1)
    /\ OrchLogs(pool, entries)

\* _generate_report: generate_summary's loop (built without working_dir) and
\* report.md, written with self.iteration
GenerateReport(pool, entries, count) ==
    /\ reports' = Append(reports, count)
    /\ OrchLogs(pool, entries \o
          <<LogEntry(Orchestrator, "report", "Generating final report", "info"),
            LogEntry(Orchestrator, "report", "Report saved", "info")>>)

\* save_snapshot: the tree at repo_path is copied to snapshots/snapshot_<ts>;
\* copytree raises when that directory exists, and the error is returned as a
\* string that run does not look at.  The snapshots are followed where the
\* tree is (pool FALSE).
SaveSnapshot(snaps, ts, it, tree) ==
    IF snaps[ts] = NoSnapshot
    THEN [snaps EXCEPT ![ts] = [iteration |-> it, tree |-> tree]]
    ELSE snaps

WithinBudget_oneMore(it) == it <= MaxIterations

\* while self.iteration < self.max_iterations
WithinBudget(it) == it < MaxIterations

\* Orchestrator.run: the head of an iteration.  _check_task_complete says the
\* task is complete, and run returns True after its report, or it does not,
\* and the snapshot is taken and the fan-out begins.
BeginIteration(pool) ==
    /\ orch = "loop"
    /\ WithinBudget(iteration)
    /\ iteration' = iteration + 1
    /\ \E complete \in BOOLEAN :
        LET entries ==
               (IF iteration = 0
                THEN <<LogEntry(Orchestrator, "start", "Starting orchestration", "info")>>
                ELSE <<>>)
               \o <<LogEntry(Orchestrator, "iteration", "Starting iteration", "info"),
                    LogEntry(Orchestrator, "check", "Checking if task is complete",
                             "info")>>
        IN  /\ checks' = Append(checks, complete)
            /\ IF complete
               THEN /\ orch' = "complete"
                    /\ GenerateReport(pool, entries, iteration + 1)
                    /\ snapshots' = snapshots
               ELSE /\ orch' = "fanout"
                    /\ OrchLogs(pool, entries)
                    /\ reports' = reports
                    /\ snapshots' = IF pool THEN snapshots
                                    ELSE SaveSnapshot(snapshots, clock, iteration + 1, repo)
    /\ UNCHANGED <<poolVars, threadVars, agent, call, disk, pipeline, workspace, trace, created,
                   results, collected, improvement, repo>>

\* Orchestrator.run: the while condition fails, the budget is logged as
\* exhausted, and run returns False after its report
Exhaust(pool) ==
    /\ orch = "loop"
    /\ ~WithinBudget(iteration)
    /\ orch' = "exhausted"
    /\ GenerateReport(pool,
          <<LogEntry(Orchestrator, "complete", "Max iterations reached", "warning")>>,
          iteration)
    /\ UNCHANGED <<poolVars, threadVars, agent, call, disk, iteration, pipeline, workspace, trace,
                   created, results, collected, improvement, repo,
                   checks, snapshots>>

\* _run_parallel_agents: the pipeline of slot q is created and submitted to
\* the executor, the slots in the order of range(n_agents)
Submit(q, pool) ==
    /\ orch = "fanout"
    /\ pipeline[q].pc = "idle"
    /\ \A r \in Pipes : r < q => pipeline[r].pc # "idle"
    /\ pipeline' = [pipeline EXCEPT ![q] = NewPipeline("queued")]
    /\ trace' = [trace EXCEPT ![q] = NewTrace]
    /\ created' = Append(created, Agent(q))
    /\ orch' = IF q = NAgents - 1 THEN "collect" ELSE "fanout"
    /\ OrchLogs(pool,
          IF q = 0
          THEN <<LogEntry(Orchestrator, "parallel", "Spawning pipelines", "info")>>
          ELSE <<>>)
    /\ UNCHANGED <<poolVars, threadVars, agent, call, disk, iteration, workspace, results, collected,
                   improvement, reports, repo,
                   checks, snapshots>>

Keep_all(rs, p) == Append(rs, p.result)

\* result = future.result(); if result: results.append(result).  A future
\* that raises, or one that returned None, adds nothing
Keep(rs, p) ==
    IF p.pc = "raised" \/ p.result.null THEN rs ELSE Append(rs, p.result)

\* the log of the orchestrator for a future
FutureLog(p) ==
    IF p.pc = "raised"
    THEN LogEntry(Orchestrator, "parallel", "Agent failed with error", "error")
    ELSE IF p.result.null
    THEN LogEntry(Orchestrator, "parallel", "Agent failed to produce results",
                  "warning")
    ELSE LogEntry(Orchestrator, "parallel", "Agent completed", "info")

\* _run_parallel_agents: as_completed yields the future of a pipeline that
\* returned or raised; its result is kept if it is one (if result:), the
\* exception of future.result() is logged, and the pipeline object is of no
\* further use.  After the last one the executor is left and the results go
\* to run.
Collect(q, pool) ==
    /\ orch = "collect"
    /\ pipeline[q].pc \in {"done", "raised"}
    /\ q \notin collected
    /\ collected' = collected \cup {q}
    /\ results' = Keep(results, pipeline[q])
    /\ orch' = IF collected' = Pipes THEN "synthesize" ELSE "collect"
    /\ OrchLogs(pool,
          <<FutureLog(pipeline[q])>>
          \o (IF collected' = Pipes
              THEN <<LogEntry(Orchestrator, "parallel", "Parallel execution complete",
                              "info")>>
              ELSE <<>>))
    /\ pipeline' = [pipeline EXCEPT ![q] = NewPipeline("collected")]
    /\ trace' = [trace EXCEPT ![q] = NewTrace]
    /\ UNCHANGED <<poolVars, threadVars, agent, call, disk, iteration, workspace,
                   created, improvement, reports, repo, checks, snapshots>>

\* r.get("evaluation", {}).get("confidence", 0)
Confidence(r) ==
    IF r.evaluation.confidence = Absent THEN 0 ELSE r.evaluation.confidence

\* [r for r in results if r.get("evaluation", {}).get("accepted")]
Accepted(r) == r.evaluation.accepted
AcceptedResults(rs) == SelectSeq(rs, Accepted)

\* max() compares the keys with >, which raises TypeError between a number
\* and a value that is none
MaxRaises(rs) ==
    \E i, j \in 1..Len(rs) :
        (Confidence(rs[i]) = TextConfidence) # (Confidence(rs[j]) = TextConfidence)

\* max(accepted_results, key=confidence): the first result of maximal key
BestResult(rs) ==
    rs[CHOOSE i \in 1..Len(rs) :
          /\ \A j \in 1..Len(rs) : Confidence(rs[j]) <= Confidence(rs[i])
          /\ \A j \in 1..(i - 1) : Confidence(rs[j]) < Confidence(rs[i])]

\* the dict _synthesize_improvements returns
Improvement(best, plan) ==
    [none |-> FALSE, source_agent |-> best.agent_id,
     hypothesis_id |-> best.hypothesis_id, hypothesis |-> best.hypothesis,
     plan |-> plan, confidence |-> Confidence(best)]

\* run: if results: improvement = self._synthesize_improvements(results).
\* Without a result, or without an accepted one, there is no improvement and
\* the iteration goes to its end; max() or the construction of the agent loop
\* may raise, and nothing in run catches it; else the improvement goes to
\* _apply_improvement.
Synthesize(pool) ==
    /\ orch = "synthesize"
    /\ LET first == LogEntry(Orchestrator, "synthesis", "Synthesizing improvements",
                             "info")
           accepted == AcceptedResults(results)
       IN  IF results = <<>>
           THEN orch' = "iterated" /\ improvement' = NoImprovement
                /\ OrchLogs(pool, <<>>)
           ELSE IF accepted = <<>>
           THEN orch' = "iterated" /\ improvement' = NoImprovement
                /\ OrchLogs(pool,
                      <<first, LogEntry(Orchestrator, "synthesis",
                                        "No accepted hypotheses to synthesize",
                                        "warning")>>)
           ELSE IF MaxRaises(accepted)
           THEN orch' = "raised" /\ improvement' = NoImprovement
                /\ OrchLogs(pool, <<first>>)
           ELSE \E o \in AgentOutcomes("synthesis") :
               LET selected == LogEntry(Orchestrator, "synthesis",
                                        "Selected best result", "info")
               IN  IF o = TypeError
                   THEN orch' = "raised" /\ improvement' = NoImprovement
                        /\ OrchLogs(pool, <<first, selected>>)
                   ELSE orch' = "apply"
                        /\ improvement' = Improvement(BestResult(accepted), o)
                        /\ OrchLogs(pool,
                              <<first, selected,
                                LogEntry(Orchestrator, "synthesis",
                                         "Improvement plan created", "info")>>)
    /\ UNCHANGED <<poolVars, threadVars, agent, call, disk, iteration, pipeline, workspace, trace,
                   created, results, collected, reports, repo,
                   checks, snapshots>>

\* _apply_improvement: the agent loop, with write_file and run_terminal, is
\* constructed, which may raise out of run; else it works on the tree at
\* repo_path and a breakthrough is recorded for the winner's hypothesis
Apply(pool) ==
    /\ orch = "apply"
    /\ \E o \in AgentOutcomes("apply") :
        LET first == LogEntry(Orchestrator, "apply", "Applying improvement", "info")
        IN  IF o = TypeError
            THEN /\ orch' = "raised"
                 /\ OrchLogs(pool, <<first>>)
                 /\ UNCHANGED <<files, repo>>
            ELSE /\ orch' = "iterated"
                 /\ OrchLogs(pool,
                       <<first, LogEntry(Orchestrator, "apply", "Improvement applied",
                                         "info")>>)
                 /\ files' = IF pool
                             THEN add_entry(files, "breakthroughs",
                                     Breakthrough(Orchestrator, "Applied improvement",
                                                  improvement.hypothesis_id))
                             ELSE files
                 /\ ToolCalls(pool, Orchestrator, TRUE, TRUE)
    /\ UNCHANGED <<lock, clock, threadVars, agent, call, disk, iteration, pipeline, workspace, trace,
                   created, results, collected, improvement, reports,
                   checks, snapshots>>

\* Orchestrator.run: the last log of an iteration; the futures, the pipeline
\* objects, the results and the improvement are dropped
EndIteration(pool) ==
    /\ orch = "iterated"
    /\ orch' = "loop"
    /\ pipeline' = [q \in Pipes |-> NewPipeline("idle")]
    /\ trace' = [q \in Pipes |-> NewTrace]
    /\ results' = <<>>
    /\ collected' = {}
    /\ improvement' = NoImprovement
    /\ OrchLogs(pool, <<LogEntry(Orchestrator, "iteration", "Completed iteration",
                                 "info")>>)
    /\ UNCHANGED <<poolVars, threadVars, agent, call, disk, iteration, workspace, created, reports, repo,
                   checks, snapshots>>

\* ------------------------------------------------------ the specifications
InitSpec ==
    /\ InitPool /\ InitThreads /\ InitRun /\ (NoLeftover \/ Leftover)
    /\ agent = NoAgent /\ NoCalls

Next ==
    \/ (iteration = 0 /\ BeginIteration(TRUE))
    \/ \E q \in Pipes : Submit(q, TRUE)
    \/ \E q \in Pipes : SetupWorkspace(q, TRUE)
    \/ \E q \in Pipes : RunHypothesisPhase(q, TRUE)
    \/ \E q \in Pipes : RunPlanningPhase(q, TRUE)
    \/ \E q \in Pipes : RunCodingPhase(q, TRUE)
    \/ \E q \in Pipes : RunExecutionPhase(q, TRUE)
    \/ \E q \in Pipes : RunTestingPhase(q, TRUE)
    \/ \E q \in Pipes : RunEvaluationPhase(q, TRUE)
    \/ \E q \in Pipes : CleanupAndReturn(q, TRUE)
    \/ \E q \in Pipes : CleanupAfterFailure(q, TRUE)
    \/ \E q \in Pipes : HandleException(q, TRUE)
    \/ Tick

\* the fan-out of the first iteration, with the pool
Spec == InitSpec /\ [][Next]_vars

NextIteration ==
    \/ Next
    \/ \E q \in Pipes : Collect(q, TRUE)
    \/ Synthesize(TRUE)
    \/ Apply(TRUE)
    \/ EndIteration(TRUE)

\* the first iteration to its end, with the pool
SpecIteration == InitSpec /\ [][NextIteration]_vars

NextOrch ==
    \/ BeginIteration(FALSE)
    \/ \E q \in Pipes : Submit(q, FALSE)
    \/ \E q \in Pipes : SetupWorkspace(q, FALSE)
    \/ \E q \in Pipes : RunHypothesisPhase(q, FALSE)
    \/ \E q \in Pipes : RunPlanningPhase(q, FALSE)
    \/ \E q \in Pipes : RunCodingPhase(q, FALSE)
    \/ \E q \in Pipes : RunExecutionPhase(q, FALSE)
    \/ \E q \in Pipes : RunTestingPhase(q, FALSE)
    \/ \E q \in Pipes : RunEvaluationPhase(q, FALSE)
    \/ \E q \in Pipes : CleanupAndReturn(q, FALSE)
    \/ \E q \in Pipes : CleanupAfterFailure(q, FALSE)
    \/ \E q \in Pipes : HandleException(q, FALSE)
    \/ \E q \in Pipes : Collect(q, FALSE)
    \/ Synthesize(FALSE)
    \/ Apply(FALSE)
    \/ EndIteration(FALSE)
    \/ Exhaust(FALSE)
    \/ Tick

\* the iterations, without the content of the pool
SpecOrch == InitSpec /\ [][NextOrch]_vars

\* the pipeline submitted first
First == 0

NextCrash ==
    \/ (iteration = 0 /\ BeginIteration(TRUE))
    \/ Submit(First, TRUE)
    \/ SetupWorkspace(First, TRUE)
    \/ RunHypothesisPhase(First, TRUE)
    \/ RunPlanningPhase(First, TRUE)
    \/ RunCodingPhase(First, TRUE)
    \/ RunExecutionPhase(First, TRUE)
    \/ RunTestingPhase(First, TRUE)
    \/ RunEvaluationPhase(First, TRUE)
    \/ CleanupAndReturn(First, TRUE)
    \/ CleanupAfterFailure(First, TRUE)
    \/ HandleException(First, TRUE)
    \/ CleanupRaises(First, TRUE)
    \/ HandleExceptionRaises(First, TRUE)
    \/ Tick

\* run_full_pipeline of one pipeline, with the pool, where shutil.rmtree may
\* raise
SpecCrash == InitSpec /\ [][NextCrash]_vars

\* run_full_pipeline as _run_parallel_agents sees it: the call returns a
\* record, returns None, or raises (the exception of the except clause's
\* cleanup).  The writes of the pipeline to the pool and to its workspace are
\* not followed here.
RunFullPipeline(q) ==
    /\ pipeline[q].pc = "queued"
    /\ \E outcome \in {"record", "None", "raises"}, verdict \in {AcceptedVerdict, RejectedVerdict} :
         LET a == Agent(q)
             p == [pipeline[q] EXCEPT !.hypothesis_id = HypothesisId(clock, a),
                                      !.hypothesis_text = "hypothesis",
                                      !.plan = "plan",
                                      !.evaluation_result = verdict]
         IN  pipeline' =
               [pipeline EXCEPT ![q] =
                  CASE outcome = "record" ->
                         [p EXCEPT !.pc = "done", !.result = PipelineResult(a, p)]
                    [] outcome = "None" ->
                         [pipeline[q] EXCEPT !.pc = "done", !.raised = TypeError]
                    [] OTHER ->
                         [pipeline[q] EXCEPT !.pc = "raised", !.raised = OSError]]
    /\ UNCHANGED <<poolVars, threadVars, iteration, orch, workspace, logs_by_agent,
                   trace, created, results, collected, improvement, reports, repo,
                   checks, snapshots, agent, call, disk>>

NextFanOut ==
    \/ (iteration = 0 /\ BeginIteration(TRUE))
    \/ \E q \in Pipes : Submit(q, TRUE)
    \/ \E q \in Pipes : RunFullPipeline(q)
    \/ \E q \in Pipes : Collect(q, TRUE)
    \/ Synthesize(TRUE)
    \/ Apply(TRUE)
    \/ EndIteration(TRUE)
    \/ Tick

\* _run_parallel_agents in the first iteration, under every outcome of its
\* pipelines
SpecFanOut == InitSpec /\ [][NextFanOut]_vars

\* the verdicts of the results a list may hold: accepted or not, with a
\* confidence that is missing, a number, or no number
Verdicts ==
    {[kind |-> "parsed", accepted |-> acc, confidence |-> c] :
        acc \in BOOLEAN, c \in {Absent, 3, 9, TextConfidence}}

\* the lists of results, the i-th one returned by the pipeline of slot i
ResultLists ==
    UNION {[1..n -> Verdicts] : n \in 0..MaxResults}

ResultOf(i, verdict) ==
    [null |-> FALSE, agent_id |-> AgentId(1, i),
     hypothesis_id |-> HypothesisId(0, AgentId(1, i)), hypothesis |-> "hypothesis",
     plan |-> "plan", evaluation |-> verdict]

\* run has collected some list of results and is about to look at it
InitSynth ==
    /\ InitPool /\ InitThreads /\ NoLeftover
    /\ iteration = 1
    /\ orch = "synthesize"
    /\ pipeline = [q \in Pipes |-> NewPipeline("collected")]
    /\ logs_by_agent = [q \in Pipes \cup {OrchSlot} |-> <<>>]
    /\ trace = [q \in Pipes |-> NewTrace]
    /\ created = <<>>
    /\ \E vs \in ResultLists : results = [i \in 1..Len(vs) |-> ResultOf(i, vs[i])]
    /\ collected = Pipes
    /\ improvement = NoImprovement
    /\ reports = <<>>
    /\ repo = NoneId
    /\ checks = <<FALSE>>
    /\ snapshots = [ts \in 0..MaxClock |-> NoSnapshot]
    /\ agent = NoAgent /\ NoCalls

NextSynth == Synthesize(FALSE)

\* _synthesize_improvements on every list of results
SpecSynth == InitSynth /\ [][NextSynth]_vars


\* ------------------------------------------------------------ BaseAgent.work
\* self.tools after __init__, without extra_tools
Tools_all(can_write, can_execute_terminal) ==
    {"list_files", "read_file", "write_file", "run_terminal"}

Tools(can_write, can_execute_terminal) ==
    {"list_files", "read_file"}
    \cup (IF can_write THEN {"write_file"} ELSE {})
    \cup (IF can_execute_terminal THEN {"run_terminal"} ELSE {})

\* a tool of the caller's, given in extra_tools
Custom == "custom"

\* BaseAgent.__init__; self.tools.update(extra_tools)
NewAgent(can_write, can_execute_terminal, extra_tools, max_steps) ==
    [pc |-> "working", can_write |-> can_write,
     can_execute_terminal |-> can_execute_terminal, max_steps |-> max_steps,
     tools |-> Tools(can_write, can_execute_terminal) \cup extra_tools,
     step_count |-> 0, calls |-> 0, reply |-> NoReply, turns |-> <<>>,
     writes |-> 0, subprocesses |-> 0, printed |-> <<>>, answered |-> FALSE,
     result |-> NoneStr]

\* the tool names a reply may carry after "Action:"; delete_file is in no
\* tools dict
ToolNames ==
    {"list_files", "read_file", "write_file", "run_terminal", Custom, "delete_file"}

\* What call_llm may do: raise, or return a text.  A text is kept as what the
\* loop looks for in it: the texts after each "Final Answer:" it holds (none
\* without the marker), the tool name after "Action:" and the input after
\* "Action Input:" (NoneStr where the regular expression finds nothing).  The
\* input is one the tool accepts or one it rejects (a path with "..", no "|",
\* a forbidden command).  A text with the marker may hold an action as well,
\* and may hold the marker twice.
Replies ==
    {NoReply}
    \cup {[raises |-> FALSE, after |-> after, tool |-> t[1], input |-> t[2]] :
            after \in {<<"answer">>, <<" answer ">>, <<"">>, <<"draft ", "answer">>},
            t \in {<<NoneStr, NoneStr>>, <<"write_file", "accepted">>,
                   <<"run_terminal", "accepted">>}}
    \cup {[raises |-> FALSE, after |-> <<>>, tool |-> t, input |-> i] :
            t \in ToolNames, i \in {"accepted", "rejected"}}
    \cup {[raises |-> FALSE, after |-> <<>>, tool |-> t[1], input |-> t[2]] :
            t \in {<<NoneStr, NoneStr>>, <<"write_file", NoneStr>>,
                   <<NoneStr, "accepted">>}}

\* text.strip()
StripAnswer(text) ==
    CASE text = " answer " -> "answer"
      [] text = "draft " -> "draft"
      [] OTHER -> text

\* response_text.split("Final Answer:")[-1].strip()
FinalAnswer(reply) == StripAnswer(reply.after[Len(reply.after)])

Matches_actionOnly(reply) == reply.tool # NoneStr

\* if action_match and input_match
Matches(reply) == reply.tool # NoneStr /\ reply.input # NoneStr

Kind_actionFirst(reply) ==
    IF reply.raises THEN "raises"
    ELSE IF Matches(reply) THEN "action"
    ELSE IF reply.after # <<>> THEN "final"
    ELSE "malformed"

\* the branch of the loop body a reply takes: the marker is looked for before
\* the action
Kind(reply) ==
    IF reply.raises THEN "raises"
    ELSE IF reply.after # <<>> THEN "final"
    ELSE IF Matches(reply) THEN "action"
    ELSE "malformed"

NotFound == "Error: Tool not found."
InvalidFormat == "Observation: Invalid format. Use Action and Action Input."

\* self.tools[tool_name](tool_input): the observation, and whether a file was
\* written or a subprocess started
Dispatch(a, tool, input) ==
    CASE tool = "write_file" ->
            IF ~a.can_write
            THEN [text |-> "Error: Write access denied.", wrote |-> 0, ran |-> 0]
            ELSE IF input = "rejected"
            THEN [text |-> "Error: Access denied (External path).", wrote |-> 0,
                  ran |-> 0]
            ELSE [text |-> "Success: Wrote", wrote |-> 1, ran |-> 0]
      [] tool = "run_terminal" ->
            IF ~a.can_execute_terminal
            THEN [text |-> "Error: Terminal access denied.", wrote |-> 0, ran |-> 0]
            ELSE IF input = "rejected"
            THEN [text |-> "Error: Command blocked for safety.", wrote |-> 0,
                  ran |-> 0]
            ELSE [text |-> "output", wrote |-> 0, ran |-> 1]
      [] OTHER ->
            IF input = "rejected"
            THEN [text |-> "Error: Access denied (External path).", wrote |-> 0,
                  ran |-> 0]
            ELSE [text |-> "content", wrote |-> 0, ran |-> 0]

\* the built-in tools return the text of what they catch; a tool of the
\* caller's may raise, here on the input it does not take
ToolRaises(tool, input) == tool = Custom /\ input = "rejected"

Except_propagates(a, e) == [a EXCEPT !.pc = "raised"]

\* except Exception as e: print(e); break, and then return "False"
Except(a, e) ==
    [a EXCEPT !.printed = Append(@, e), !.pc = "returned", !.result = Sentinel]

Counted_toolsOnly(a, reply) ==
    IF Kind(reply) = "action" /\ reply.tool \in a.tools
    THEN a.step_count + 1 ELSE a.step_count

\* step_count += 1, at the end of every turn that neither returned nor raised
Counted(a, reply) == a.step_count + 1

\* one pass of the while loop of work(): call_llm, then the return of the
\* final answer, the dispatch of the tool or the error observation, and the
\* count of the step; an exception ends the loop and work() returns "False"
Turn ==
    /\ agent.pc = "working"
    /\ agent.step_count < agent.max_steps
    /\ \E reply \in Replies :
        LET a == [agent EXCEPT !.calls = @ + 1, !.reply = reply]
            d == Dispatch(a, reply.tool, reply.input)
            Observed(text, wrote, ran) ==
                [a EXCEPT !.turns = Append(@, [kind |-> Kind(reply),
                                               tool |-> reply.tool,
                                               observation |-> text]),
                          !.writes = @ + wrote,
                          !.subprocesses = @ + ran,
                          !.step_count = Counted(a, reply)]
        IN  agent' =
              CASE Kind(reply) = "raises" -> Except(a, "call_llm")
                [] Kind(reply) = "final" ->
                     [a EXCEPT !.pc = "returned", !.result = FinalAnswer(reply),
                               !.answered = TRUE]
                [] Kind(reply) = "action" ->
                     IF reply.tool \notin a.tools
                     THEN Observed(NotFound, 0, 0)
                     ELSE IF ToolRaises(reply.tool, reply.input)
                     THEN Except(a, reply.tool)
                     ELSE Observed(d.text, d.wrote, d.ran)
                [] OTHER -> Observed(InvalidFormat, 0, 0)
    /\ UNCHANGED <<poolVars, threadVars, iteration, orch, pipeline, workspace,
                   logs_by_agent, trace, created, results, collected, improvement,
                   reports, repo, checks, snapshots, call, disk>>

\* the while condition fails: return "False"
GiveUp ==
    /\ agent.pc = "working"
    /\ agent.step_count >= agent.max_steps
    /\ agent' = [agent EXCEPT !.pc = "returned", !.result = Sentinel]
    /\ UNCHANGED <<poolVars, threadVars, iteration, orch, pipeline, workspace,
                   logs_by_agent, trace, created, results, collected, improvement,
                   reports, repo, checks, snapshots, call, disk>>

\* a BaseAgent was constructed, with some capabilities and some budget
InitAgent ==
    /\ InitPool /\ InitThreads /\ InitRun /\ NoLeftover
    /\ \E w, t \in BOOLEAN, x \in {{}, {Custom}}, m \in 0..MaxSteps :
         agent = NewAgent(w, t, x, m)
    /\ NoCalls

NextAgent == Turn \/ GiveUp

\* work() of one BaseAgent, under every planner
SpecAgent == InitAgent /\ [][NextAgent]_vars

\* call_llm and the tools return, and the loop goes on
SpecAgentFair == SpecAgent /\ WF_vars(NextAgent)

\* ---------------------------------------------------- BaseAgent.run_terminal
\* A command is a string.  It is kept as the sequence of its pieces: words of
\* letters, "_" (a word character that is no letter), a blank, a newline, "-"
\* and "--".  No two words of Letters joined give a third, so a word of the
\* command is a piece with no word character on either side.  Of the six
\* forbidden words the commands hold three.
MaxCommandLen == 4

Letters == {"sudo", "su", "dd", "rm", "ls", "rf", "recursive"}
WordChars == Letters \cup {"_"}
Whitespace == {" ", "\n"}
Hyphens == {"-", "--"}
Pieces == WordChars \cup Whitespace \cup Hyphens
Commands == UNION {[1..n -> Pieces] : n \in 0..MaxCommandLen}

\* the pieces with an "r" or an "R" in them
WithR == {"rm", "rf", "recursive"}

ForbiddenPatterns ==
    <<"\\bsudo\\b", "\\bsu\\b", "\\bmkfs\\b", "\\bdd\\b", "\\bshutdown\\b",
      "\\breboot\\b", "\\brm\\b\\s+.*-[a-zA-Z]*[rR]", "\\brm\\b\\s+.*--recursive">>

\* \bword\b matches at piece i
WordAt(command, i, word) ==
    /\ command[i] = word
    /\ i = 1 \/ command[i - 1] \notin WordChars
    /\ i = Len(command) \/ command[i + 1] \notin WordChars

\* -[a-zA-Z]*[rR] matches at the last hyphen of piece j
ShortFlagAt(command, j) ==
    /\ command[j] \in Hyphens
    /\ \E m \in (j + 1)..Len(command) :
         /\ \A n \in (j + 1)..m : command[n] \in Letters
         /\ command[m] \in WithR

\* --recursive matches with its first hyphen in piece j
LongFlagAt(command, j) ==
    \/ /\ j + 1 <= Len(command)
       /\ command[j] = "--" /\ command[j + 1] = "recursive"
    \/ /\ j + 2 <= Len(command)
       /\ command[j] \in Hyphens /\ command[j + 1] = "-"
       /\ command[j + 2] = "recursive"

\* \brm\b\s+.*<flag>: the word rm, whitespace, anything but a newline, the flag
RmWith(command, long) ==
    \E i \in 1..Len(command) :
        /\ WordAt(command, i, "rm")
        /\ \E k \in (i + 1)..Len(command) :
             /\ \A n \in (i + 1)..k : command[n] \in Whitespace
             /\ \E j \in (k + 1)..Len(command) :
                  /\ \A n \in (k + 1)..(j - 1) : command[n] # "\n"
                  /\ IF long THEN LongFlagAt(command, j) ELSE ShortFlagAt(command, j)

\* re.search(pattern, command)
Search(pattern, command) ==
    CASE pattern = "\\brm\\b\\s+.*-[a-zA-Z]*[rR]" -> RmWith(command, FALSE)
      [] pattern = "\\brm\\b\\s+.*--recursive" -> RmWith(command, TRUE)
      [] pattern = "\\bsudo\\b" ->
            \E i \in 1..Len(command) : WordAt(command, i, "sudo")
      [] pattern = "\\bsu\\b" ->
            \E i \in 1..Len(command) : WordAt(command, i, "su")
      [] pattern = "\\bmkfs\\b" ->
            \E i \in 1..Len(command) : WordAt(command, i, "mkfs")
      [] pattern = "\\bdd\\b" ->
            \E i \in 1..Len(command) : WordAt(command, i, "dd")
      [] pattern = "\\bshutdown\\b" ->
            \E i \in 1..Len(command) : WordAt(command, i, "shutdown")
      [] pattern = "\\breboot\\b" ->
            \E i \in 1..Len(command) : WordAt(command, i, "reboot")

BlockedBy_wordsOnly(command) ==
    {p \in 1..6 : Search(ForbiddenPatterns[p], command)}

\* the patterns of the list that the for loop finds in the command
BlockedBy(command) ==
    {p \in 1..Len(ForbiddenPatterns) : Search(ForbiddenPatterns[p], command)}

\* the error of the first of them
BlockedError(p) ==
    <<"Error: Command blocked for safety. Forbidden pattern detected: ",
      ForbiddenPatterns[p]>>

\* run_terminal was asked for with some command
NewTerminalCall(command) ==
    [pc |-> "requested", fn |-> "run_terminal", input |-> command,
     full_command |-> NoneStr, subprocesses |-> <<>>, ret |-> NoneStr]

\* work(): the tool is looked up in self.tools
LookUp(tool) ==
    /\ call.pc = "requested"
    /\ call.fn = tool
    /\ call' = IF tool \in agent.tools
               THEN [call EXCEPT !.pc = "called"]
               ELSE [call EXCEPT !.pc = "not_found", !.ret = NotFound]
    /\ UNCHANGED <<poolVars, threadVars, iteration, orch, pipeline, workspace,
                   logs_by_agent, trace, created, results, collected, improvement,
                   reports, repo, checks, snapshots, agent, disk>>

\* run_terminal: the capability and the forbidden patterns
CheckCommand ==
    /\ call.pc = "called"
    /\ call.fn = "run_terminal"
    /\ LET blocked == BlockedBy(call.input)
       IN  call' =
             IF ~agent.can_execute_terminal
             THEN [call EXCEPT !.pc = "returned",
                               !.ret = "Error: Terminal access denied."]
             ELSE IF blocked # {}
             THEN [call EXCEPT !.pc = "returned",
                      !.ret = BlockedError(CHOOSE p \in blocked :
                                              \A o \in blocked : p <= o)]
             ELSE [call EXCEPT !.pc = "checked"]
    /\ UNCHANGED <<poolVars, threadVars, iteration, orch, pipeline, workspace,
                   logs_by_agent, trace, created, results, collected, improvement,
                   reports, repo, checks, snapshots, agent, disk>>

\* what is put before the command: nothing, or the activation of the venv
\* directory found, for os.name
ActivateCmds ==
    {"", ". .venv/bin/activate && ", ". venv/bin/activate && ",
     ".venv\\Scripts\\activate && ", "venv\\Scripts\\activate && "}

\* run_terminal: full_command = activate_cmd + command
AddPrefix ==
    /\ call.pc = "checked"
    /\ \E activate_cmd \in ActivateCmds :
         call' = [call EXCEPT !.pc = "prefixed",
                              !.full_command = <<activate_cmd, call.input>>]
    /\ UNCHANGED <<poolVars, threadVars, iteration, orch, pipeline, workspace,
                   logs_by_agent, trace, created, results, collected, improvement,
                   reports, repo, checks, snapshots, agent, disk>>

\* what run_terminal returns after subprocess.run
TerminalReturns ==
    {"output", "Success (No output)", "Error: Command timed out.",
     "Error executing command: "}

\* run_terminal: subprocess.run(full_command, shell=True, ...) and the return
RunSubprocess ==
    /\ call.pc = "prefixed"
    /\ \E r \in TerminalReturns :
         call' = [call EXCEPT !.pc = "returned", !.ret = r,
                              !.subprocesses = Append(@, call.full_command)]
    /\ UNCHANGED <<poolVars, threadVars, iteration, orch, pipeline, workspace,
                   logs_by_agent, trace, created, results, collected, improvement,
                   reports, repo, checks, snapshots, agent, disk>>

\* an agent with or without the terminal, and a request for run_terminal
InitTerminal ==
    /\ InitPool /\ InitThreads /\ InitRun /\ NoLeftover
    /\ \E t \in BOOLEAN : agent = NewAgent(FALSE, t, {}, MaxSteps)
    /\ \E command \in Commands : call = NewTerminalCall(command)
    /\ disk = NoDisk

NextTerminal ==
    \/ LookUp("run_terminal")
    \/ CheckCommand
    \/ AddPrefix
    \/ RunSubprocess

\* run_terminal on every command
SpecTerminal == InitTerminal /\ [][NextTerminal]_vars


\* ------------------------------------------ BaseAgent.read_file, write_file
\* The input of a tool is a string, kept as the sequence of its pieces: ".",
\* "/", a name, a blank and "|".  ".." is two "." in a row.
MaxInputLen == 4

InputPieces == {".", "/", "a", " ", "|"}
Inputs == UNION {[1..n -> InputPieces] : n \in 0..MaxInputLen}

\* ".." in file_path
HasDotDot(file_path) ==
    \E i \in 1..(Len(file_path) - 1) : file_path[i] = "." /\ file_path[i + 1] = "."

\* file_path.startswith("/")
StartsWithSlash(file_path) == Len(file_path) > 0 /\ file_path[1] = "/"

External_dotsOnly(file_path) == HasDotDot(file_path)

\* the condition of the access-denied return
External(file_path) == HasDotDot(file_path) \/ StartsWithSlash(file_path)

\* "|" in input_str
HasBar(input_str) == \E i \in 1..Len(input_str) : input_str[i] = "|"

\* input_str.split("|", 1)
Bar(input_str) ==
    CHOOSE i \in 1..Len(input_str) :
        input_str[i] = "|" /\ \A j \in 1..(i - 1) : input_str[j] # "|"
BeforeBar(input_str) == SubSeq(input_str, 1, Bar(input_str) - 1)
AfterBar(input_str) == SubSeq(input_str, Bar(input_str) + 1, Len(input_str))

\* file_path.strip()
Strip(text) ==
    LET inked == {i \in 1..Len(text) : text[i] # " "}
    IN  IF inked = {} THEN <<>>
        ELSE SubSeq(text, CHOOSE i \in inked : \A j \in inked : i <= j,
                          CHOOSE i \in inked : \A j \in inked : i >= j)

\* os.path.dirname(file_path), of a path that does not start with "/"
Dirname(file_path) ==
    LET slashes == {i \in 1..Len(file_path) : file_path[i] = "/"}
    IN  IF slashes = {} THEN <<>>
        ELSE LET last == CHOOSE i \in slashes : \A j \in slashes : i >= j
                 kept == {i \in 1..last : file_path[i] # "/"}
             IN  SubSeq(file_path, 1, CHOOSE i \in kept : \A j \in kept : i >= j)

\* a tool of the file system was asked for with some input
NewFileCall(fn, input) ==
    [pc |-> "requested", fn |-> fn, input |-> input, file_path |-> NoneStr,
     ops |-> <<>>, ret |-> NoneStr]

\* read_file and write_file up to the test of the path
CheckPath ==
    /\ call.pc = "called"
    /\ call.fn \in {"read_file", "write_file"}
    /\ call' =
         IF call.fn = "read_file"
         THEN IF External(call.input)
              THEN [call EXCEPT !.pc = "returned", !.ret = "Error: Access denied."]
              ELSE [call EXCEPT !.pc = "checked", !.file_path = call.input]
         ELSE IF ~agent.can_write
         THEN [call EXCEPT !.pc = "returned", !.ret = "Error: Write access denied."]
         ELSE IF ~HasBar(call.input)
         THEN [call EXCEPT !.pc = "returned",
                           !.ret = "Error: Input format must be 'filepath|content'"]
         ELSE IF External(Strip(BeforeBar(call.input)))
         THEN [call EXCEPT !.pc = "returned",
                           !.ret = "Error: Access denied (External path)."]
         ELSE [call EXCEPT !.pc = "checked",
                           !.file_path = Strip(BeforeBar(call.input))]
    /\ UNCHANGED <<poolVars, threadVars, iteration, orch, pipeline, workspace,
                   logs_by_agent, trace, created, results, collected, improvement,
                   reports, repo, checks, snapshots, agent, disk>>

\* read_file: open and read, or the text of the exception of open
OpenAndRead ==
    /\ call.pc = "checked"
    /\ call.fn = "read_file"
    /\ \/ call' = [call EXCEPT !.pc = "returned", !.ops = <<"open", "read">>,
                               !.ret = "content"]
       \/ call' = [call EXCEPT !.pc = "returned", !.ops = <<"open">>,
                               !.ret = "str(e)"]
    /\ UNCHANGED <<poolVars, threadVars, iteration, orch, pipeline, workspace,
                   logs_by_agent, trace, created, results, collected, improvement,
                   reports, repo, checks, snapshots, agent, disk>>

\* write_file: makedirs of the dirname, which raises when the dirname is "",
\* open and write; an exception of any of them is returned as text
MakeDirsAndWrite ==
    /\ call.pc = "checked"
    /\ call.fn = "write_file"
    /\ \/ call' = [call EXCEPT !.pc = "returned", !.ops = <<"makedirs">>,
                               !.ret = "str(e)"]
       \/ /\ Dirname(call.file_path) # <<>>
          /\ \/ call' = [call EXCEPT !.pc = "returned",
                                     !.ops = <<"makedirs", "open">>,
                                     !.ret = "str(e)"]
             \/ call' = [call EXCEPT !.pc = "returned",
                                     !.ops = <<"makedirs", "open", "write">>,
                                     !.ret = <<"Success: Wrote to ", call.file_path>>]
    /\ UNCHANGED <<poolVars, threadVars, iteration, orch, pipeline, workspace,
                   logs_by_agent, trace, created, results, collected, improvement,
                   reports, repo, checks, snapshots, agent, disk>>

\* an agent that may write or may not, and a request for one of the two tools
InitFiles ==
    /\ InitPool /\ InitThreads /\ InitRun /\ NoLeftover
    /\ \E w \in BOOLEAN : agent = NewAgent(w, FALSE, {}, MaxSteps)
    /\ \E fn \in {"read_file", "write_file"}, input \in Inputs :
         call = NewFileCall(fn, input)
    /\ disk = NoDisk

NextFiles ==
    \/ LookUp("read_file")
    \/ LookUp("write_file")
    \/ CheckPath
    \/ OpenAndRead
    \/ MakeDirsAndWrite

\* read_file and write_file on every input
SpecFiles == InitFiles /\ [][NextFiles]_vars

\* ----------------------------------------------------------- checkpoint.py
\* The directory at repo_path is kept as its files: path -> content, Absent
\* for no file; a directory is there when a file under it is.  The files have
\* names that are not in IGNORE; the directories data, at the top and under
\* src, have one.  The directory snapshots is kept apart, as the snapshot of
\* each second.  MaxEdits bounds the changes made to the files by others.
MaxEdits == 2

IGNORE ==
    {".git", "__pycache__", "venv", ".venv", ".vscode", "node_modules", ".idea",
     "snapshots", "agent_workspaces", "data"}

RepoPaths ==
    {<<"a">>, <<"src", "a">>, <<"src", "b">>, <<"src", "data", "a">>, <<"data", "a">>}

Contents == {1, 2}

\* shutil.ignore_patterns(*IGNORE): an entry of any directory copied whose
\* name is one of IGNORE is left out
Ignored(path) == \E i \in 1..Len(path) : path[i] \in IGNORE

\* no save_snapshot has succeeded
NotSaved == -1

\* no directory snapshot_<second>
NoTree == [path \in RepoPaths |-> Absent]
NoSnapshots == [ts \in 0..MaxClock |-> [there |-> FALSE, tree |-> NoTree]]

\* copytree(repo_path, snapshot_path, ignore=...)
CopyTree(tree) ==
    [path \in RepoPaths |-> IF Ignored(path) THEN Absent ELSE tree[path]]

\* sorted(...)[-1]
LatestSnapshot(snaps) ==
    CHOOSE ts \in DOMAIN snaps :
        snaps[ts].there /\ \A o \in DOMAIN snaps : snaps[o].there => o <= ts

RevertTree_keep(tree, snapshot) ==
    [path \in RepoPaths |->
        IF snapshot[path] # Absent THEN snapshot[path] ELSE tree[path]]

\* the two loops of revert_snapshot: every entry of repo_path whose name is
\* not in IGNORE is removed, every entry of the snapshot is copied back
RevertTree(tree, snapshot) ==
    [path \in RepoPaths |->
        IF path[1] \in IGNORE THEN tree[path] ELSE snapshot[path]]

\* a repository with some of the files
NewDisk(tree) ==
    [pc |-> "repo", tree |-> tree, snaps |-> NoSnapshots, last |-> "none",
     saved |-> NotSaved, since |-> <<>>, edits |-> 0, before |-> tree,
     ret |-> NoneStr]

\* save_snapshot(repo_path)
save_snapshot ==
    /\ disk.pc = "repo"
    /\ disk' =
         IF disk.snaps[clock].there
         THEN [disk EXCEPT !.last = "save", !.ret = "Error saving snapshot: "]
         ELSE [disk EXCEPT
                  !.snaps[clock] = [there |-> TRUE, tree |-> CopyTree(disk.tree)],
                  !.last = "save", !.saved = clock, !.since = <<>>,
                  !.ret = "Snapshot saved to: "]
    /\ UNCHANGED <<poolVars, threadVars, iteration, orch, pipeline, workspace,
                   logs_by_agent, trace, created, results, collected, improvement,
                   reports, repo, checks, snapshots, agent, call>>

\* a file of the repository is deleted, created or written by someone
EditFile ==
    /\ disk.pc = "repo"
    /\ disk.edits < MaxEdits
    /\ \E path \in RepoPaths, content \in Contents \cup {Absent} :
         /\ content # disk.tree[path]
         /\ disk' = [disk EXCEPT
                        !.tree[path] = content,
                        !.last = "edit",
                        !.edits = @ + 1,
                        !.since = Append(@,
                            [path |-> path,
                             kind |-> IF content = Absent THEN "delete"
                                      ELSE IF disk.tree[path] = Absent THEN "create"
                                      ELSE "write"])]
    /\ UNCHANGED <<poolVars, threadVars, iteration, orch, pipeline, workspace,
                   logs_by_agent, trace, created, results, collected, improvement,
                   reports, repo, checks, snapshots, agent, call>>

\* revert_snapshot(repo_path)
revert_snapshot ==
    /\ disk.pc = "repo"
    /\ disk' =
         IF \A ts \in DOMAIN disk.snaps : ~disk.snaps[ts].there
         THEN [disk EXCEPT !.last = "revert", !.before = disk.tree,
                           !.ret = "Error: No snapshots directory found."]
         ELSE [disk EXCEPT
                  !.tree = RevertTree(disk.tree,
                                      disk.snaps[LatestSnapshot(disk.snaps)].tree),
                  !.last = "revert", !.before = disk.tree,
                  !.ret = "Successfully reverted to "]
    /\ UNCHANGED <<poolVars, threadVars, iteration, orch, pipeline, workspace,
                   logs_by_agent, trace, created, results, collected, improvement,
                   reports, repo, checks, snapshots, agent, call>>

\* a repository in which each file is there, with its first content, or not
InitCheckpoint ==
    /\ InitPool /\ InitThreads /\ InitRun /\ NoLeftover
    /\ agent = NoAgent
    /\ call = NoCall
    /\ \E tree \in [RepoPaths -> {Absent, 1}] : disk = NewDisk(tree)

NextCheckpoint ==
    \/ save_snapshot
    \/ EditFile
    \/ revert_snapshot
    \/ Tick

\* save_snapshot and revert_snapshot on a repository that changes
SpecCheckpoint == InitCheckpoint /\ [][NextCheckpoint]_vars

\* ----------------------------------- run_evaluation_phase: the verdict parsed
\* The text that work() returned is kept as the sequence of its pieces: "{",
\* "}", ",", prose, and the members "accepted": true, "accepted": false and
\* "confidence": 0.8 of a JSON object.
MaxTextLen == 5

Members == {"\"accepted\": true", "\"accepted\": false", "\"confidence\": 0.8"}
TextPieces == {"{", "}", ",", "prose"} \cup Members
Texts == UNION {[1..n -> TextPieces] : n \in 0..MaxTextLen}

\* piece in result
In(piece, result) == \E i \in 1..Len(result) : result[i] = piece

\* result.index(piece) and result.rindex(piece)
Index(result, piece) ==
    CHOOSE i \in 1..Len(result) :
        result[i] = piece /\ \A j \in 1..(i - 1) : result[j] # piece
RIndex(result, piece) ==
    CHOOSE i \in 1..Len(result) :
        result[i] = piece /\ \A j \in (i + 1)..Len(result) : result[j] # piece

JsonStr_firstClose(result) ==
    SubSeq(result, Index(result, "{"), Index(result, "}"))

\* result[result.index("{"):result.rindex("}")+1]
JsonStr(result) ==
    SubSeq(result, Index(result, "{"), RIndex(result, "}"))

\* json.loads(json_str) returns: json_str is an object, its members between
\* commas
IsObject(json_str) ==
    /\ Len(json_str) >= 2
    /\ json_str[1] = "{" /\ json_str[Len(json_str)] = "}"
    /\ Len(json_str) = 2 \/ Len(json_str) % 2 = 1
    /\ \A i \in 2..(Len(json_str) - 1) :
         IF i % 2 = 0 THEN json_str[i] \in Members ELSE json_str[i] = ","

\* the value of a key in the dict json.loads returns: the value of the last
\* member with that key
ValueOf(json_str, members) ==
    LET at == {i \in 1..Len(json_str) : json_str[i] \in members}
    IN  IF at = {} THEN {}
        ELSE {json_str[CHOOSE i \in at : \A j \in at : i >= j]}

\* the dict json.loads returns, each key with the set of its values (none or
\* one)
Loads(json_str) ==
    [accepted |-> ValueOf(json_str, {"\"accepted\": true", "\"accepted\": false"}),
     confidence |-> ValueOf(json_str, {"\"confidence\": 0.8"}),
     evidence |-> {}, findings |-> {}, recommendations |-> {}]

\* the dict of the else branch and of the except clause
Default(result, findings) ==
    [accepted |-> {"\"accepted\": false"}, confidence |-> {"\"confidence\": 0.0"},
     evidence |-> {result}, findings |-> {findings},
     recommendations |-> {"Review manually"}]

\* agent.work() returned some text
NewParseCall(result) ==
    [pc |-> "called", fn |-> "run_evaluation_phase", input |-> result,
     ret |-> NoneVerdict]

\* the try block of run_evaluation_phase: the object parsed, the dict of the
\* else branch, or the exception of json.loads
TryParse ==
    /\ call.pc = "called"
    /\ call.fn = "run_evaluation_phase"
    /\ call' =
         IF In("{", call.input) /\ In("}", call.input)
         THEN IF IsObject(JsonStr(call.input))
              THEN [call EXCEPT !.pc = "returned",
                                !.ret = Loads(JsonStr(call.input))]
              ELSE [call EXCEPT !.pc = "except"]
         ELSE [call EXCEPT !.pc = "returned",
                  !.ret = Default(call.input, "Could not parse evaluation")]
    /\ UNCHANGED <<poolVars, threadVars, iteration, orch, pipeline, workspace,
                   logs_by_agent, trace, created, results, collected, improvement,
                   reports, repo, checks, snapshots, agent, disk>>

\* the except clause
ExceptParse ==
    /\ call.pc = "except"
    /\ call.fn = "run_evaluation_phase"
    /\ call' = [call EXCEPT !.pc = "returned",
                   !.ret = Default(call.input, "Evaluation parsing failed")]
    /\ UNCHANGED <<poolVars, threadVars, iteration, orch, pipeline, workspace,
                   logs_by_agent, trace, created, results, collected, improvement,
                   reports, repo, checks, snapshots, agent, disk>>

InitParse ==
    /\ InitPool /\ InitThreads /\ InitRun /\ NoLeftover
    /\ agent = NoAgent
    /\ \E result \in Texts : call = NewParseCall(result)
    /\ disk = NoDisk

NextParse == TryParse \/ ExceptParse

\* the parse of the verdict on every text
SpecParse == InitParse /\ [][NextParse]_vars

\* ------------------------------------------------------------ check_complete
\* The final answer of the completion check's agent loop is a text, kept as
\* the sequence of its pieces: the words True, False, true and not, and a
\* blank.  No pieces joined give the word True.  work() returns its answer
\* stripped, or "False".
MaxAnswerLen == 3

AnswerPieces == {"True", "False", "true", "not", " "}

Answers == {Strip(text) : text \in UNION {[1..n -> AnswerPieces] : n \in 0..MaxAnswerLen}}

\* "True" in result
ContainsTrue(result) == \E i \in 1..Len(result) : result[i] = "True"

\* if result and "True" in result: return True; return False
CheckComplete(result) == result # <<>> /\ ContainsTrue(result)

\* result = agent.work()
NewCheckCall(result) ==
    [pc |-> "called", fn |-> "check_complete", input |-> result, ret |-> FALSE]

\* check_complete returns
CheckCompleteReturns ==
    /\ call.pc = "called"
    /\ call.fn = "check_complete"
    /\ call' = [call EXCEPT !.pc = "returned", !.ret = CheckComplete(call.input)]
    /\ UNCHANGED <<poolVars, threadVars, iteration, orch, pipeline, workspace,
                   logs_by_agent, trace, created, results, collected, improvement,
                   reports, repo, checks, snapshots, agent, disk>>

\* if self._check_task_complete(): the head of the iteration with what
\* check_complete returned
TaskChecked ==
    /\ call.pc = "returned"
    /\ call.fn = "check_complete"
    /\ BeginIteration(TRUE)
    /\ checks'[Len(checks')] = call.ret

InitComplete ==
    /\ InitPool /\ InitThreads /\ InitRun /\ NoLeftover
    /\ agent = NoAgent
    /\ \E result \in Answers : call = NewCheckCall(result)
    /\ disk = NoDisk

NextComplete == CheckCompleteReturns \/ TaskChecked \/ Tick

\* the completion check of the first iteration on every answer
SpecComplete == InitComplete /\ [][NextComplete]_vars

\* ------------------------------------------------------- the run: claims
Running(q) == pipeline[q].pc \notin {"idle", "done", "collected"}

Returned(q) == pipeline[q].pc = "done"

StartedPhases(q) == {trace[q].started[n] : n \in 1..Len(trace[q].started)}

ReturnOf(q, phase) == trace[q].returns[Idx(phase)]

LoopResultOf(q, phase) == trace[q].loop[Idx(phase)]

\* the entries of a container recorded under an agent id
EntriesBy(key, agent_id) ==
    LET Mine(e) == e.agent_id = agent_id
    IN  SelectSeq(Stored(key, files[key].data), Mine)

\* C6: whenever run_full_pipeline has returned - with a result, with None
\* after a failed fatal phase, or with None after an exception - the workspace
\* directory of the run does not exist.
C6_WorkspaceGoneOnReturn ==
    \A q \in Pipes : Returned(q) => workspace[Path(q)] = Gone

\* one pipeline has returned a result and another has returned after its
\* workspace copy raised, where directories had been left behind
C6_Witness ==
    \E q, r \in Pipes :
        /\ Returned(q) /\ ~pipeline[q].result.null
        /\ Returned(r) /\ pipeline[r].raised = OSError
        /\ workspace[Path(q)] = Gone /\ workspace[Path(r)] = Gone
        /\ \E path \in AllPaths : workspace[path] = Stale

FatalPhases == {"hypothesis", "planning", "coding"}

GatedPhases == {"planning", "coding", "execution", "testing", "evaluation"}

\* C8: the phases of a run start in the order setup, hypothesis, planning,
\* coding, execution, testing, evaluation, cleanup, none twice and none before
\* the one started before it has finished; a phase other than cleanup starts
\* only when all the phases before it were started, and planning to evaluation
\* only when every fatal phase before it returned success.
C8_PhaseOrder ==
    \A q \in Pipes :
        LET s == trace[q].started
        IN  /\ \A n \in 1..Len(s) : s[n] # "cleanup" => Idx(s[n]) = n
            /\ \A n \in 1..Len(s) : s[n] = "cleanup" => n = Len(s)
            /\ \A n \in 1..Len(s) : ReturnOf(q, s[n]) # NoneStr
            /\ \A n \in 1..Len(s) :
                  s[n] \in GatedPhases =>
                      /\ ReturnOf(q, "setup") = "True"
                      /\ \A f \in FatalPhases :
                            Idx(f) < Idx(s[n]) => ReturnOf(q, f) = "True"

\* one run went through its eight phases and another stopped at a failed
\* planning phase
C8_Witness ==
    \E q, r \in Pipes :
        /\ trace[q].started = PhaseNames
        /\ trace[r].started = <<"setup", "hypothesis", "planning", "cleanup">>
        /\ ReturnOf(r, "planning") = "False"

C10_PlanningSentinel ==
    \A q \in Pipes :
        LoopResultOf(q, "planning") = Sentinel =>
            /\ ReturnOf(q, "planning") = "False"
            /\ StartedPhases(q) \cap
                  {"coding", "execution", "testing", "evaluation"} = {}
            /\ \A n \in 1..Len(EntriesBy("hypotheses", Agent(q))) :
                  EntriesBy("hypotheses", Agent(q))[n].plan = NoneStr
            /\ Returned(q) => pipeline[q].result.null /\ workspace[Path(q)] = Gone

\* the phases that call an agent loop
LoopPhases == {"hypothesis", "planning", "coding", "execution", "testing", "evaluation"}

\* a final answer that is text and not the failure sentinel
WellFormed(text) == Truthy(text) /\ ~ContainsFalse(text)

\* every agent loop the run has called returned a well-formed final answer
PlannerWellFormed(q) ==
    \A ph \in LoopPhases :
        ph \in StartedPhases(q) /\ ReturnOf(q, ph) # "raised" =>
            WellFormed(LoopResultOf(q, ph))

\* C11: run_full_pipeline returns None exactly when a fatal phase returned
\* failure or an exception was raised in the chain; a run in which every
\* agent loop called gave a well-formed final answer and no file system
\* error occurred returns the record that holds its agent id, the id its
\* hypothesis phase recorded, and its verdict.
C11_ResultOrNull ==
    \A q \in Pipes :
        Returned(q) =>
            LET p == pipeline[q]
            IN  /\ p.result.null <=>
                     \/ \E f \in FatalPhases : ReturnOf(q, f) = "False"
                     \/ p.raised # NoneStr
                /\ (PlannerWellFormed(q) /\ p.raised # OSError) =>
                     /\ ~p.result.null
                     /\ p.result.agent_id = Agent(q)
                     /\ p.result.hypothesis_id = p.hypothesis_id
                     /\ p.result.evaluation = p.evaluation_result

\* the entries of a container recorded under an agent id for a hypothesis id
EntriesFor(key, agent_id, hypothesis_id) ==
    LET Mine(e) == e.agent_id = agent_id /\ e.hypothesis_id = hypothesis_id
    IN  SelectSeq(Stored(key, files[key].data), Mine)

\* the stored candidates with an id
CandidatesWithId(hypothesis_id) ==
    LET Match(c) == c.id = hypothesis_id
    IN  SelectSeq(Stored("hypotheses", files["hypotheses"].data), Match)

\* C12: when run_full_pipeline has returned a result, the pool holds for the
\* run's hypothesis id one candidate, completed, with the verdict and a
\* completion time attached; exactly one result entry written by the run,
\* carrying the verdict; and exactly one signal entry written by the run: a
\* breakthrough and no pitfall when the verdict is accepted, a pitfall and no
\* breakthrough otherwise.
C12_CompletionRecords ==
    \A q \in Pipes :
        (Returned(q) /\ ~pipeline[q].result.null) =>
            LET a == Agent(q)
                h == pipeline[q].hypothesis_id
                v == pipeline[q].evaluation_result
                cands == CandidatesWithId(h)
                res == EntriesFor("results", a, h)
            IN  /\ h # NoneId
                /\ Len(cands) = 1
                /\ cands[1].status = "completed"
                /\ cands[1].evaluation = v
                /\ cands[1].completed_at # Absent
                /\ Len(res) = 1
                /\ res[1].result = v
                /\ Len(EntriesFor("breakthroughs", a, h)) = IF v.accepted THEN 1 ELSE 0
                /\ Len(EntriesFor("pitfalls", a, h)) = IF v.accepted THEN 0 ELSE 1

\* one run has returned an accepted verdict and another a rejected one
C12_Witness ==
    \E q, r \in Pipes :
        /\ Returned(q) /\ ~pipeline[q].result.null
        /\ pipeline[q].evaluation_result.accepted
        /\ Returned(r) /\ ~pipeline[r].result.null
        /\ ~pipeline[r].evaluation_result.accepted
        /\ Len(EntriesFor("breakthroughs", Agent(q), pipeline[q].hypothesis_id)) = 1
        /\ Len(EntriesFor("pitfalls", Agent(r), pipeline[r].hypothesis_id)) = 1

\* the entries of a container that reference a hypothesis id
Referencing(key, hypothesis_id) ==
    LET Refers(e) == e.hypothesis_id = hypothesis_id
    IN  SelectSeq(Stored(key, files[key].data), Refers)

\* the hypothesis ids the pool has handed out
HypothesisIds ==
    {Stored("hypotheses", files["hypotheses"].data)[i].id :
        i \in 1..Len(Stored("hypotheses", files["hypotheses"].data))}

\* C13: at every moment of the run, for each hypothesis id, the breakthroughs
\* and the pitfalls together hold at most one entry that references it.
C13_OneSignalPerHypothesis ==
    \A h \in HypothesisIds :
        Len(Referencing("breakthroughs", h)) + Len(Referencing("pitfalls", h)) <= 1

\* C14: once the results were looked at, an improvement was returned exactly
\* when some result is accepted; the improvement is that of an accepted result
\* whose confidence no accepted result exceeds; and without an accepted result
\* the run does not go on to apply.
C14_SynthesisPicksBest ==
    orch # "synthesize" =>
        LET accepted == AcceptedResults(results)
        IN  /\ ~improvement.none <=> accepted # <<>>
            /\ ~improvement.none =>
                 \E i \in 1..Len(accepted) :
                     /\ improvement.source_agent = accepted[i].agent_id
                     /\ improvement.hypothesis_id = accepted[i].hypothesis_id
                     /\ \A j \in 1..Len(accepted) :
                            Confidence(accepted[j]) <= Confidence(accepted[i])
            /\ accepted = <<>> => orch = "iterated"

\* run has returned True / False
ReturnedTrue == orch = "complete"
ReturnedFalse == orch = "exhausted"

\* the agent ids created in an iteration
CreatedIn(it) == {n \in 1..Len(created) : created[n][2] = it}

RunOutcome ==
    /\ iteration <= MaxIterations
    /\ Len(checks) = iteration
    /\ ReturnedTrue <=> \E n \in 1..Len(checks) : checks[n]
    /\ ReturnedTrue =>
         /\ checks[iteration]
         /\ CreatedIn(iteration) = {}
         /\ \A ts \in DOMAIN snapshots : snapshots[ts].iteration # iteration
         /\ results = <<>> /\ improvement = NoImprovement
    /\ ReturnedFalse =>
         /\ Len(checks) = MaxIterations
         /\ \A n \in 1..Len(checks) : ~checks[n]

C16_ReportOnExit ==
    /\ (ReturnedTrue \/ ReturnedFalse) => reports = <<iteration>>
    /\ ~(ReturnedTrue \/ ReturnedFalse) => reports = <<>>

\* the task was found complete at the head of the second iteration
C16_Witness ==
    /\ ReturnedTrue
    /\ iteration = 2
    /\ Len(created) = NAgents
    /\ reports = <<2>>

\* C17: no exception leaves run: the run is never in the state of having been
\* left by one.
C17_NoEscape == orch # "raised"

\* every pipeline submitted in the iteration has returned
AllFinished == \A q \in Pipes : pipeline[q].pc \in {"done", "collected"}

\* C18: apply is entered only when every pipeline of the iteration has
\* finished, and the tree at repo_path changes in no step but apply's: never
\* while a pipeline is running.
C18_OnlyApplyWrites ==
    [][/\ orch' = "apply" => AllFinished'
       /\ repo' # repo => (orch = "apply" /\ AllFinished)
      ]_vars

\* the turns of the loop followed in which the planner's reply was of a kind
TurnsOf(kind) == {n \in 1..Len(agent.turns) : agent.turns[n].kind = kind}

\* C19: work() makes at most max_steps calls of the planner; every turn after
\* which the loop goes on was counted as a step, the malformed and the
\* unknown-tool turns included; when work() has returned without a final
\* answer it returned "False"; and work() does return.
C19_WorkTerminates ==
    /\ [](agent.calls <= agent.max_steps)
    /\ [][(agent'.calls = agent.calls + 1 /\ agent'.pc = "working")
             => agent'.step_count = agent.step_count + 1]_vars
    /\ [](agent.pc = "returned" /\ ~agent.answered => agent.result = Sentinel)
    /\ <>(agent.pc = "returned")

\* the budget went by in malformed and unknown-tool turns, and work() returned
\* "False"
C19_Witness ==
    /\ agent.pc = "returned"
    /\ agent.max_steps = MaxSteps
    /\ agent.calls = MaxSteps
    /\ agent.result = Sentinel
    /\ TurnsOf("malformed") # {}
    /\ \E n \in TurnsOf("action") : agent.turns[n].observation = NotFound

\* the turns in which the planner asked for a tool
Requests(tool) == {n \in TurnsOf("action") : agent.turns[n].tool = tool}

ForbiddenCommand ==
    /\ call.pc \notin {"none", "requested", "not_found"}
    /\ call.fn = "run_terminal"
    /\ \E p \in 1..Len(ForbiddenPatterns) : Search(ForbiddenPatterns[p], call.input)

\* C21: run_terminal on a command that a forbidden pattern matches, whatever
\* stands around the match, starts no subprocess and puts no prefix before the
\* command, and what it returns is the blocked-pattern error with a pattern
\* that matches the command.
C21_ForbiddenBlocked ==
    ForbiddenCommand =>
        /\ call.subprocesses = <<>>
        /\ call.full_command = NoneStr
        /\ call.pc \in {"called", "returned"}
        /\ call.pc = "returned" =>
             \E p \in 1..Len(ForbiddenPatterns) :
                 /\ Search(ForbiddenPatterns[p], call.input)
                 /\ call.ret = BlockedError(p)

\* a recursive delete, with a newline after rm and a flag that ends in r,
\* was refused
C21_Witness ==
    /\ call.pc = "returned"
    /\ call.fn = "run_terminal"
    /\ call.input = <<"rm", "\n", "-", "rf">>
    /\ agent.can_execute_terminal
    /\ call.ret = BlockedError(7)
    /\ call.subprocesses = <<>>

\* the paths of the call followed: the input of read_file, and what stands
\* before the first "|" in the input of write_file, as it is and stripped
PathsGiven ==
    IF call.fn = "read_file" THEN {call.input}
    ELSE IF HasBar(call.input)
    THEN {BeforeBar(call.input), Strip(BeforeBar(call.input))}
    ELSE {}

\* C22: read_file and write_file, given a path that has ".." in it or starts
\* with "/", make no call of the file system (no makedirs, no open, no read,
\* no write) and return an access-denied error.
C22_ExternalPathDenied ==
    (/\ call.pc \notin {"none", "requested", "not_found"}
     /\ call.fn \in {"read_file", "write_file"}
     /\ \E path \in PathsGiven : HasDotDot(path) \/ StartsWithSlash(path))
    => /\ call.ops = <<>>
       /\ call.pc \in {"called", "returned"}
       /\ call.pc = "returned" =>
            call.ret = IF call.fn = "read_file"
                       THEN "Error: Access denied."
                       ELSE "Error: Access denied (External path)."

\* write_file refused a path that starts with "/" once the blank before it is
\* stripped
C22_Witness ==
    /\ call.pc = "returned"
    /\ call.fn = "write_file"
    /\ call.input = <<" ", "/", "a", "|">>
    /\ call.ret = "Error: Access denied (External path)."
    /\ call.ops = <<>>

\* since the last snapshot was saved, a file outside the directories named in
\* IGNORE was deleted and then another one created
DeletedThenCreated ==
    /\ disk.saved # NotSaved
    /\ Len(disk.since) = 2
    /\ disk.since[1].kind = "delete" /\ ~Ignored(disk.since[1].path)
    /\ disk.since[2].kind = "create" /\ ~Ignored(disk.since[2].path)
    /\ disk.since[1].path # disk.since[2].path

\* C23: when revert_snapshot has run after a save_snapshot that succeeded and
\* the deletion of one file and the creation of another outside the ignored
\* directories, the files outside them are those of the snapshot, the deleted
\* one there with its content and the created one gone, and the top-level
\* entries named in IGNORE are as they were before the revert.
C23_RevertRestores ==
    (disk.pc = "repo" /\ disk.last = "revert" /\ DeletedThenCreated) =>
        /\ \A path \in RepoPaths :
             ~Ignored(path) => disk.tree[path] = disk.snaps[disk.saved].tree[path]
        /\ disk.tree[disk.since[1].path] # Absent
        /\ disk.tree[disk.since[2].path] = Absent
        /\ \A path \in RepoPaths :
             path[1] \in IGNORE => disk.tree[path] = disk.before[path]

\* src/a was deleted and src/b created after the snapshot, and the revert put
\* src/a back, removed src/b and left data/a alone
C23_Witness ==
    /\ disk.pc = "repo" /\ disk.last = "revert"
    /\ DeletedThenCreated
    /\ disk.since[1].path = <<"src", "a">>
    /\ disk.since[2].path = <<"src", "b">>
    /\ disk.before[<<"src", "a">>] = Absent
    /\ disk.before[<<"src", "b">>] = 2
    /\ disk.tree[<<"src", "a">>] = 1
    /\ disk.tree[<<"src", "b">>] = Absent
    /\ disk.tree[<<"data", "a">>] = 1
    /\ disk.ret = "Successfully reverted to "

\* the text has a "{" and a "}" and what stands from the first "{" to the last
\* "}" is a JSON object
Embedded ==
    /\ In("{", call.input) /\ In("}", call.input)
    /\ IsObject(SubSeq(call.input, Index(call.input, "{"), RIndex(call.input, "}")))

\* C24: the parse of the verdict raises on no text (the exception of
\* json.loads goes to the except clause and no further); a text without "{" or
\* without "}", or one in which the substring from the first "{" to the last
\* "}" is no JSON object, gives the default verdict: accepted false,
\* confidence 0.0, the text as evidence; any other text gives the object
\* embedded in it.
C24_VerdictParsed ==
    /\ call.fn = "run_evaluation_phase" => call.pc \in {"called", "except", "returned"}
    /\ (call.fn = "run_evaluation_phase" /\ call.pc = "returned") =>
           IF Embedded
           THEN call.ret =
                  Loads(SubSeq(call.input, Index(call.input, "{"),
                               RIndex(call.input, "}")))
           ELSE /\ call.ret.accepted = {"\"accepted\": false"}
                /\ call.ret.confidence = {"\"confidence\": 0.0"}
                /\ call.ret.evidence = {call.input}

\* a text with a second "}" after the object gave the default verdict
C24_Witness ==
    /\ call.fn = "run_evaluation_phase" /\ call.pc = "returned"
    /\ call.input = <<"prose", "{", "\"accepted\": true", "}", "}">>
    /\ call.ret = Default(call.input, "Evaluation parsing failed")

\* the pitfalls of the crash of the run of slot q
CrashPitfalls(q) ==
    LET Crash(e) == e.description = "Pipeline crashed"
    IN  SelectSeq(EntriesBy("pitfalls", Agent(q)), Crash)

\* the exception of the run of slot q was handled: the run returned None, its
\* workspace is gone, it logged the failure at error level and recorded one
\* pitfall for the crash, with its hypothesis id
Handled(q) ==
    /\ pipeline[q].result.null
    /\ workspace[Path(q)] = Gone
    /\ \E n \in 1..Len(logs_by_agent[q]) :
         /\ logs_by_agent[q][n].level = "error"
         /\ logs_by_agent[q][n].message = "Pipeline failed"
    /\ Len(CrashPitfalls(q)) = 1
    /\ CrashPitfalls(q)[1].hypothesis_id = pipeline[q].hypothesis_id

\* C25: an exception raised in the chain of run_full_pipeline does not leave
\* it: the run logs the failure at error level, records exactly one pitfall
\* for the crash, with the hypothesis id of the run if it had one, removes the
\* workspace and returns None.
C25_CrashContained ==
    \A q \in Pipes :
        /\ pipeline[q].pc # "raised"
        /\ (Returned(q) /\ pipeline[q].raised # NoneStr) => Handled(q)

\* the fan-out of the iteration is about to start: its completion check was
\* false and none of its pipelines is submitted yet
FanOutStarts == orch = "fanout" /\ \A q \in Pipes : pipeline[q].pc = "idle"

\* C26: when the fan-out of an iteration starts, save_snapshot has run in this
\* iteration, after the completion check, and there is a snapshot taken in
\* this iteration that holds the tree at repo_path as it is now, also when
\* the iteration before fell within the same second.
C26_SnapshotBeforeFanOut ==
    FanOutStarts =>
        /\ Len(checks) = iteration /\ ~checks[iteration]
        /\ \E ts \in DOMAIN snapshots :
             /\ snapshots[ts].iteration = iteration
             /\ snapshots[ts].tree = repo

\* the log entries of the orchestrator
OrchLog == logs_by_agent[OrchSlot]

\* as_completed yields the future of slot q in this step
Yields(q) == q \in collected' /\ q \notin collected

\* C27: _run_parallel_agents returns when all N pipelines were submitted and
\* all N futures are done and were looked at; the results hold at most one
\* entry for a pipeline and no None; the future of a pipeline that returned a
\* record adds it, one that returned None adds nothing, and one that raises
\* adds nothing and is logged at error level, after which the collection and
\* the iteration go on.
C27_FuturesCollected ==
    /\ [](/\ orch \in {"synthesize", "apply", "iterated"} =>
               /\ Len(created) = NAgents
               /\ collected = Pipes
               /\ \A q \in Pipes : pipeline[q].pc = "collected"
          /\ \A n \in 1..Len(results) : ~results[n].null
          /\ \A n, m \in 1..Len(results) :
               results[n].agent_id = results[m].agent_id => n = m)
    /\ [][\A q \in Pipes : Yields(q) =>
            /\ orch' \in {"collect", "synthesize"}
            /\ pipeline[q].pc = "raised" =>
                 /\ results' = results
                 /\ \E n \in (Len(OrchLog) + 1)..Len(OrchLog') :
                      OrchLog'[n].level = "error"
            /\ (pipeline[q].pc = "done" /\ pipeline[q].result.null) =>
                 results' = results
            /\ (pipeline[q].pc = "done" /\ ~pipeline[q].result.null) =>
                 results' = Append(results, pipeline[q].result)
         ]_vars

\* the future of the first pipeline raised and was logged, the record of the
\* second is the one result, and run went on to the synthesis
C27_Witness ==
    /\ orch = "synthesize"
    /\ collected = Pipes
    /\ Len(results) = 1
    /\ results[1].agent_id = AgentId(1, 1)
    /\ \E n \in 1..Len(OrchLog) :
         OrchLog[n].level = "error" /\ OrchLog[n].message = "Agent failed with error"

\* the breakthroughs the pool holds in a state of its files
BreakthroughsOf(fs) == ReadFile(fs["breakthroughs"])

\* _apply_improvement is entered and left in this step
ApplyStep == orch = "apply" /\ orch' # "apply"

\* C28: an apply step appends exactly one Breakthrough of the orchestrator for
\* the hypothesis id of the improvement, whatever the agent loop returned, and
\* the iteration ends with the tree of the repository as the step left it, no
\* snapshot being put back.
C28_ApplyRecordsBreakthrough ==
    [][ApplyStep =>
         /\ BreakthroughsOf(files') =
              AppendEntry(BreakthroughsOf(files),
                          Breakthrough(Orchestrator, "Applied improvement",
                                       improvement.hypothesis_id))
         /\ orch' = "iterated"
         /\ snapshots' = snapshots
      ]_vars

\* call_llm returned in this step
Replied == agent'.calls = agent.calls + 1 /\ ~agent'.reply.raises

\* the text of a reply holds "Final Answer:"
HasMarker(reply) == reply.after # <<>>

\* C29: a reply with the final-answer marker ends work() in the turn it came
\* in, with the text after the marker (the last one, white space around it
\* removed) as the result; no tool is dispatched for it and no observation is
\* appended, also when the reply holds an action and its input; and after
\* work() returned call_llm is not called again.
C29_FinalAnswerEndsWork ==
    /\ [][(Replied /\ HasMarker(agent'.reply)) =>
            /\ agent'.pc = "returned"
            /\ agent'.result =
                 StripAnswer(agent'.reply.after[Len(agent'.reply.after)])
            /\ agent'.writes = agent.writes
            /\ agent'.subprocesses = agent.subprocesses
            /\ agent'.turns = agent.turns
         ]_vars
    /\ [][agent.pc = "returned" => agent'.calls = agent.calls]_vars

\* after a turn with a tool, a reply with two markers and with an action the
\* loop would have dispatched ended work() with the text after the second
C29_Witness ==
    /\ agent.pc = "returned"
    /\ agent.calls = 2
    /\ agent.can_write
    /\ agent.reply.after = <<"draft ", "answer">>
    /\ agent.reply.tool = "write_file"
    /\ agent.reply.input = "accepted"
    /\ agent.result = "answer"
    /\ agent.writes = 0

\* a reply without the marker that has no action, no input, or the name of a
\* tool that is not in the tools dict
NoToolFor(a, reply) ==
    /\ ~HasMarker(reply)
    /\ reply.tool = NoneStr \/ reply.input = NoneStr \/ reply.tool \notin a.tools

\* C30: a turn whose reply has no marker and lacks the action or its input,
\* or names a tool that is not in the tools dict, dispatches nothing and does
\* not end the loop: one observation is appended, the format reminder for the
\* first and the tool-not-found error for the second, the step is counted,
\* and while steps remain the next thing work() does is call the planner.
C30_BadReplyGoesOn ==
    /\ [][(Replied /\ NoToolFor(agent', agent'.reply)) =>
            /\ agent'.pc = "working"
            /\ Len(agent'.turns) = Len(agent.turns) + 1
            /\ SubSeq(agent'.turns, 1, Len(agent.turns)) = agent.turns
            /\ agent'.turns[Len(agent'.turns)].observation =
                 (IF agent'.reply.tool = NoneStr \/ agent'.reply.input = NoneStr
                  THEN InvalidFormat ELSE NotFound)
            /\ agent'.writes = agent.writes
            /\ agent'.subprocesses = agent.subprocesses
            /\ agent'.step_count = agent.step_count + 1
         ]_vars
    /\ [][(agent.pc = "working" /\ agent.step_count < agent.max_steps) =>
            agent'.calls = agent.calls + 1]_vars

\* a loop that may write got an action without its input and then the name
\* of a tool it does not have, wrote nothing, and is still running
C30_Witness ==
    /\ agent.pc = "working"
    /\ agent.can_write
    /\ agent.calls = 2
    /\ agent.step_count = 2
    /\ agent.step_count < agent.max_steps
    /\ agent.turns[1].tool = "write_file"
    /\ agent.turns[1].observation = InvalidFormat
    /\ agent.turns[2].tool = "delete_file"
    /\ agent.turns[2].observation = NotFound
    /\ agent.writes = 0

\* this step is a turn of the loop in which call_llm raised, or the tool the
\* loop dispatched did
TurnRaises ==
    /\ agent'.calls = agent.calls + 1
    /\ \/ agent'.reply.raises
       \/ /\ Kind(agent'.reply) = "action"
          /\ agent'.reply.tool \in agent.tools
          /\ ToolRaises(agent'.reply.tool, agent'.reply.input)

\* C31: a turn in which the planner call or the tool raises ends work() there
\* with "False": the exception is printed and does not leave work(), nothing
\* is appended to the transcript, nothing is written and no subprocess is
\* started in the turn, and after the return nothing of the loop moves: no
\* planner call and no dispatch.
C31_RaiseEndsWork ==
    /\ [][TurnRaises =>
            /\ agent'.pc = "returned"
            /\ agent'.result = Sentinel
            /\ ~agent'.answered
            /\ Len(agent'.printed) = Len(agent.printed) + 1
            /\ agent'.turns = agent.turns
            /\ agent'.writes = agent.writes
            /\ agent'.subprocesses = agent.subprocesses
         ]_vars
    /\ [](agent.pc # "raised")
    /\ [][agent.printed # <<>> => agent' = agent]_vars

\* a loop that wrote a file in its first turn and whose own tool raised in
\* the second returned "False" with steps to spare
C31_Witness ==
    /\ agent.pc = "returned"
    /\ agent.result = Sentinel
    /\ agent.printed = <<Custom>>
    /\ agent.calls = 2
    /\ agent.writes = 1
    /\ agent.step_count = 1
    /\ agent.max_steps = MaxSteps

\* the hypothesis phase of slot q returns in this step
HypothesisReturns(q) ==
    /\ pipeline[q].pc = "hypothesis"
    /\ pipeline'[q].pc \notin {"hypothesis", "except"}

\* C32: when the hypothesis phase returns, a result of its agent loop that is
\* not empty and is not the sentinel "False" was stored as one new candidate
\* of status in_progress and the run goes on to planning; after an empty
\* result or the sentinel nothing was stored and the run goes to its cleanup.
C32_HypothesisRecorded ==
    [][\A q \in Pipes : HypothesisReturns(q) =>
          LET text == pipeline'[q].hypothesis_text
              before == Stored("hypotheses", ReadFile(files["hypotheses"]))
              after == Stored("hypotheses", ReadFile(files'["hypotheses"]))
          IN  IF text \notin {"", Sentinel}
              THEN /\ Len(after) = Len(before) + 1
                   /\ SubSeq(after, 1, Len(before)) = before
                   /\ after[Len(after)].hypothesis = text
                   /\ after[Len(after)].status = "in_progress"
                   /\ pipeline'[q].pc = "planning"
              ELSE /\ after = before
                   /\ pipeline'[q].pc = "cleanup_failed"
      ]_vars

\* the log entries written under the agent id of slot q
Logged(q, phase, message) ==
    \E n \in 1..Len(logs_by_agent[q]) :
        /\ logs_by_agent[q][n].phase = phase
        /\ logs_by_agent[q][n].message = message

\* the agent loop of the execution or of the testing phase returned "False"
SoftFailure(q) ==
    LoopResultOf(q, "execution") = Sentinel \/ LoopResultOf(q, "testing") = Sentinel

C34_StrictlyTrue ==
    call.pc = "returned" =>
        /\ call.ret <=> call.input = <<"True">>
        /\ checks # <<>> =>
             /\ orch = "complete" <=> call.input = <<"True">>
             /\ orch = "fanout" <=> call.input # <<"True">>

\* a reply without the marker that names a tool of the tools dict after
\* "Action:" and has no "Action Input:"
ActionWithoutInput(a, reply) ==
    /\ ~reply.raises
    /\ ~HasMarker(reply)
    /\ reply.tool \in a.tools
    /\ reply.input = NoneStr

\* C35: a reply that names a tool and has no "Action Input:" line is answered
\* with what the tool returned, not with the reminder of the format: the tool
\* is dispatched on the text after the action.
C35_MissingInputDispatched ==
    [][(agent'.calls = agent.calls + 1 /\ ActionWithoutInput(agent, agent'.reply)) =>
          /\ agent'.pc = "working"
          /\ Len(agent'.turns) = Len(agent.turns) + 1
          /\ agent'.turns[Len(agent'.turns)].observation # InvalidFormat
      ]_vars

\* C36: the lock is held only by a thread inside the with block of its
\* operation, so it is free again after every operation, those that raised
\* in the write included, and a thread that asks for it does not hold it;
\* and under fair scheduling every thread that asks for the lock gets it and
\* every operation called is left, by return or by its exception.
C36_LockNeverDeadlocks ==
    /\ [](\A t \in Threads :
            /\ lock = t => pc[t] \in {"open", "dump"}
            /\ pc[t] \in {"open", "dump"} => lock = t
            /\ pc[t] = "wait" => lock # t)
    /\ \A t \in Threads :
         /\ pc[t] = "wait" ~> lock = t
         /\ pc[t] # "idle" ~> pc[t] = "idle"

\* the operation of one thread raised in its write, and the other thread,
\* which was waiting, has the lock
C36_Witness ==
    \E t, u \in Threads :
        /\ pc[t] = "raised"
        /\ files[KeyOf(op[t].name)].writing
        /\ lock = u
        /\ pc[u] = "dump"

\* revert_snapshot has run on what the save_snapshot before it, which
\* succeeded, had copied: no file was changed in between
SavedThenReverted ==
    /\ disk.pc = "repo" /\ disk.last = "revert"
    /\ disk.saved # NotSaved
    /\ disk.since = <<>>
    /\ disk.ret = "Successfully reverted to "

\* C37: after save_snapshot followed at once by revert_snapshot, every file
\* under a top-level entry whose name is not in IGNORE is as it was before,
\* at every depth, the files of a nested directory with a name of IGNORE
\* (src/data) included.
C37_SaveRevertIdentity ==
    SavedThenReverted =>
        \A path \in RepoPaths :
            path[1] \notin IGNORE => disk.tree[path] = disk.before[path]

====
